---- MODULE Spec2Model ----
(***************************************************************************)
(* Engine simulator: the control-rate physics loop of app.js (update,      *)
(* gear change, parameter inputs, start/stop) and the rev limiter of the   *)
(* audio worklet (engine-processor.js).                                    *)
(*                                                                         *)
(* JavaScript numbers are modelled in fixed point.  Units:                 *)
(*   rpm        0.1 rpm            (currentRpm, idleRpm, redlineRpm)       *)
(*   fractions  1/1000             (throttle, load, roadLoad, inertia,     *)
(*                                  noiseGain, gate values)                *)
(*   speed      0.0001 m/s         (vehicleState.speed)                    *)
(*   torque     0.000014 N.m       (280 N.m = 20 000 000)                  *)
(*   force      0.01 N                                                     *)
(*   accel      0.0001 m/s^2                                               *)
(* Products that would not fit 32 bits go through MulDiv.                  *)
(***************************************************************************)
EXTENDS Integers, Sequences, FiniteSets, TLC

----------------------------------------------------------------------------
(* Arithmetic helpers *)

Min(a, b) == IF a < b THEN a ELSE b
Max(a, b) == IF a > b THEN a ELSE b
Abs(a) == IF a < 0 THEN -a ELSE a

(* <<q, r>> with a*b = q*c + r and 0 <= r < c, for a, b >= 0 and c > 0,   *)
(* computed bit by bit so that no intermediate exceeds a + 2*c.           *)
RECURSIVE MulDivQR(_, _, _)
MulDivQR(a, b, c) ==
  IF b = 0 THEN <<0, 0>>
  ELSE LET h == MulDivQR(a, b \div 2, c)
           x == 2 * h[2] + (IF b % 2 = 1 THEN a ELSE 0)
       IN  <<2 * h[1] + x \div c, x % c>>

(* a*b/c rounded to nearest, sign of a kept (b >= 0, c > 0) *)
MulDiv(a, b, c) ==
  LET qr == MulDivQR(Abs(a), b, c)
      q  == qr[1] + (IF 2 * qr[2] >= c THEN 1 ELSE 0)
  IN  IF a < 0 THEN -q ELSE q

(* floor of the square root, by bisection on [lo, hi] *)
RECURSIVE SqrtBetween(_, _, _)
SqrtBetween(n, lo, hi) ==
  IF lo >= hi THEN lo
  ELSE LET mid == (lo + hi + 1) \div 2
       IN  IF mid * mid <= n THEN SqrtBetween(n, mid, hi)
           ELSE SqrtBetween(n, lo, mid - 1)

Sqrt(n) == SqrtBetween(n, 0, 46340)

----------------------------------------------------------------------------
(* CONFIG (app.js:9-127), in the units above *)

AIR_DENSITY == 1225                \* kg/m^3, thousandths
GRAVITY == 981                     \* m/s^2, hundredths
gearRatios == <<362, 219, 162, 127, 103, 82>>   \* hundredths
finalDrive == 342                  \* hundredths
wheelRadius == 33                  \* m, hundredths
mass == 1350                       \* kg
dragCoef == 30                     \* hundredths
frontalArea == 21                  \* m^2, tenths
rollingResistance == 12            \* thousandths
drivelineEfficiency == 92          \* hundredths

constraints ==
  [ncyl      |-> [min |-> 1,     max |-> 12,     default |-> 4],
   idleRpm   |-> [min |-> 500,   max |-> 2000,   default |-> 900],
   redlineRpm|-> [min |-> 3000,  max |-> 12000,  default |-> 7000],
   inertia   |-> [min |-> 800,   max |-> 990,    default |-> 950],
   noiseGain |-> [min |-> 0,     max |-> 1000,   default |-> 200]]

presets ==
  [na     |-> [ncyl |-> 4, idleRpm |-> 850,  redlineRpm |-> 7800, inertia |-> 920, noiseGain |-> 160],
   turbo  |-> [ncyl |-> 4, idleRpm |-> 1000, redlineRpm |-> 6800, inertia |-> 970, noiseGain |-> 340],
   vtec   |-> [ncyl |-> 4, idleRpm |-> 900,  redlineRpm |-> 8600, inertia |-> 900, noiseGain |-> 220],
   fa24   |-> [ncyl |-> 4, idleRpm |-> 780,  redlineRpm |-> 7400, inertia |-> 960, noiseGain |-> 420],
   v8     |-> [ncyl |-> 8, idleRpm |-> 750,  redlineRpm |-> 6500, inertia |-> 970, noiseGain |-> 280],
   rotary |-> [ncyl |-> 2, idleRpm |-> 850,  redlineRpm |-> 9000, inertia |-> 880, noiseGain |-> 380]]

PresetNames == DOMAIN presets

throttleResponse == 100            \* CONFIG.defaults.throttleResponse, 0.1
TwoPi == 6283185                   \* 2 * Math.PI, millionths

(* 2*PI*wheelRadius in 1e-8 m: the circumference used by both conversions *)
Circumference == TwoPi * wheelRadius

----------------------------------------------------------------------------
(* Drivetrain: getOverallRatio, the speed/rpm conversions *)

(* vehicleState.gearRatios[gear - 1] || 0 : undefined outside 1..6 *)
GearRatioAt(gear) == IF gear \in DOMAIN gearRatios THEN gearRatios[gear] ELSE 0

(* overall ratio in 1/10000 *)
OverallRatioOf(gear) ==
  IF gear <= 0 THEN 0 ELSE GearRatioAt(gear) * finalDrive

(* mutation of SpeedFromRpm: metres per minute, the division by 60 lost *)
SpeedFromRpmPerMinute(rpm, overallRatio) == MulDiv(rpm, Circumference, overallRatio * 10)

(* (rpm * 2 * PI * wheelRadius) / (overallRatio * 60), for overallRatio > 0 *)
SpeedFromRpm(rpm, overallRatio) == MulDiv(rpm, Circumference, overallRatio * 600)

(* (speed * overallRatio * 60) / (2 * PI * wheelRadius) *)
RpmFromSpeed(speed, overallRatio) == MulDiv(speed, overallRatio * 600, Circumference)

(* the clamp bounds idleRpm * 0.75 and redlineRpm * 1.05 *)
RpmFloor(idleRpm) == MulDiv(idleRpm, 75, 100)
RpmCeiling(redlineRpm) == MulDiv(redlineRpm, 105, 100)

ClampRpm(rpm, idleRpm, redlineRpm) ==
  Max(RpmFloor(idleRpm), Min(rpm, RpmCeiling(redlineRpm)))

----------------------------------------------------------------------------
(* calcEngineTorque (app.js:828-840); rpm, idle, redline in 0.1 rpm,       *)
(* throttle in 1/1000, result in torque units (baseTorque = 20 000 000)    *)

(* mutation of TorqueShape: the parabola centred on the middle of the span *)
TorqueShapeCentred(rpm, idleRpm, redlineRpm) ==
  LET rpmSpan == Max(10, redlineRpm - idleRpm)
      norm    == Min(10000, Max(0, MulDiv(rpm - idleRpm, 10000, rpmSpan)))
      sq      == MulDiv((norm - 5000) * (norm - 5000), 1000, 4000 * 4000)
  IN  Max(0, 1000 - sq)

TorqueShape(rpm, idleRpm, redlineRpm) ==
  LET rpmSpan == Max(10, redlineRpm - idleRpm)
      norm    == Min(10000, Max(0, MulDiv(rpm - idleRpm, 10000, rpmSpan)))
      mid     == 6000
      width   == 4000
      \* ((norm - mid) / width)^2 in 1/1000
      sq      == MulDiv((norm - mid) * (norm - mid), 1000, width * width)
  IN  Max(0, 1000 - sq)

TorqueOf(rpm, throttle, idleRpm, redlineRpm) ==
  \* baseTorque * shape * (0.15 + 0.85 * throttle)
  TorqueShape(rpm, idleRpm, redlineRpm) * (3000 + 17 * throttle)

(* calcEngineTorque(rpm, throttle) reads params.idleRpm / params.redlineRpm *)
calcEngineTorque(p, rpm, throttle) ==
  TorqueOf(rpm, throttle, 10 * p.idleRpm, 10 * p.redlineRpm)

----------------------------------------------------------------------------
(* mutation of estimateThrottleFromSensors: the acceleration branch        *)
(* without its Math.min(1.0, ...)                                          *)
estimateThrottleUncapped(p, s) ==
  IF ~s.hasGPS /\ ~s.hasAccelerometer THEN 0
  ELSE IF s.acceleration.y > p.accelThreshold
         THEN Max(0, MulDiv(s.acceleration.y - p.accelThreshold, 1000,
                            p.accelMax - p.accelThreshold))
       ELSE IF s.acceleration.y < -p.accelThreshold /\ s.gpsSpeed > 10000 THEN 0
       ELSE IF s.gpsSpeed < 10000 /\ Abs(s.acceleration.y) < p.accelThreshold THEN 0
       ELSE p.cruiseThrottle

(* estimateThrottleFromSensors (app.js:574-607); acceleration in 0.001     *)
(* m/s^2, gpsSpeed in speed units, result in 1/1000                        *)

estimateThrottleFromSensors(p, s) ==
  IF ~s.hasGPS /\ ~s.hasAccelerometer THEN 0
  ELSE LET forwardAccel == s.acceleration.y
           speed        == s.gpsSpeed
       IN  IF forwardAccel > p.accelThreshold
             THEN Min(1000, Max(0, MulDiv(forwardAccel - p.accelThreshold, 1000,
                                          p.accelMax - p.accelThreshold)))
           ELSE IF forwardAccel < -p.accelThreshold /\ speed > 10000 THEN 0
           ELSE IF speed < 10000 /\ Abs(forwardAccel) < p.accelThreshold THEN 0
           ELSE p.cruiseThrottle

----------------------------------------------------------------------------
(* update (app.js:845-1018): the physics of one frame, in the order of the *)
(* source.  p, v, s are params, vehicleState, sensorState on entry; now is *)
(* Date.now() in ms; f holds the frame's locals computed so far.           *)

(* mutation of ThrottleStep: the throttle set to its target at once *)
ThrottleStepInstant(p, v, s) ==
  LET gear == IF p.realVehicleMode THEN 1 ELSE v.gear
      targetThrottle == IF p.realVehicleMode THEN estimateThrottleFromSensors(p, s)
                        ELSE p.targetThrottle
      overallRatio == OverallRatioOf(gear)
  IN  [prevRpm |-> p.currentRpm, prevSpeed |-> v.speed, gear |-> gear,
       targetThrottle |-> targetThrottle, currentThrottle |-> targetThrottle,
       overallRatio |-> overallRatio, isCoupled |-> overallRatio > 0]

(* real vehicle mode, throttle smoothing, coupling (app.js:851-863) *)
ThrottleStep(p, v, s) ==
  LET gear == IF p.realVehicleMode THEN 1 ELSE v.gear
      targetThrottle == IF p.realVehicleMode THEN estimateThrottleFromSensors(p, s)
                        ELSE p.targetThrottle
      throttleDiff == targetThrottle - p.currentThrottle
      overallRatio == OverallRatioOf(gear)
  IN  [prevRpm |-> p.currentRpm, prevSpeed |-> v.speed, gear |-> gear,
       targetThrottle |-> targetThrottle,
       currentThrottle |-> p.currentThrottle
                           + MulDiv(throttleDiff, throttleResponse, 1000),
       overallRatio |-> overallRatio, isCoupled |-> overallRatio > 0]

(* tractive and resistive force, acceleration (app.js:865-875) *)
Forces(p, v, f) ==
  LET engineTorque == calcEngineTorque(p, p.currentRpm, f.currentThrottle)
      wheelTorque  == IF f.isCoupled
                        THEN MulDiv(engineTorque, f.overallRatio * drivelineEfficiency,
                                    1000000)
                        ELSE 0
      tractiveForce == IF f.isCoupled THEN MulDiv(wheelTorque, 14, 100 * wheelRadius)
                       ELSE 0
      speedCm  == v.speed \div 100
      \* 0.5 * AIR_DENSITY * dragCoef * frontalArea * speed^2
      aeroDrag == MulDiv(speedCm * speedCm, AIR_DENSITY * dragCoef * frontalArea,
                         2 * 100000000)
      \* mass * GRAVITY * rollingResistance
      rolling  == MulDiv(mass * GRAVITY, rollingResistance, 1000)
      \* mass * GRAVITY * roadLoad * 0.25
      gradeForce == MulDiv(p.roadLoad, mass * GRAVITY, 4000)
      resistiveForce == aeroDrag + rolling + gradeForce
  IN  f @@ [engineTorque |-> engineTorque, tractiveForce |-> tractiveForce,
            resistiveForce |-> resistiveForce]

(* accel = netForce / mass (app.js:874-875) *)
Accel(f) ==
  LET netForce == IF f.isCoupled THEN f.tractiveForce - f.resistiveForce
                  ELSE -f.resistiveForce
  IN  f @@ [accel |-> MulDiv(netForce, 100, mass)]

(* mutation of TargetRpm: the free target, without internal resistance *)
TargetRpmFree(p, f) ==
  f @@ [targetRpm |-> Max(10 * p.idleRpm,
                          10 * p.idleRpm + MulDiv(10 * (p.redlineRpm - p.idleRpm),
                                                  f.currentThrottle, 1000))]

(* mutation of TargetRpm: the resisted target without its floor at idleRpm *)
TargetRpmNoFloor(p, f) ==
  LET idle    == 10 * p.idleRpm
      redline == 10 * p.redlineRpm
      rpmNormalized      == MulDiv(p.currentRpm, 10000, redline)
      internalResistance == MulDiv(rpmNormalized, Sqrt(rpmNormalized * 10000), 10000)
      resistanceFactor   == MulDiv(internalResistance, 15, 100)
      freeTargetRpm     == idle + MulDiv(redline - idle, f.currentThrottle, 1000)
  IN  f @@ [targetRpm |-> MulDiv(10000000 - resistanceFactor * (1000 - f.currentThrottle),
                                 freeTargetRpm, 10000000)]

(* target rpm under internal resistance (app.js:877-887) *)
TargetRpm(p, f) ==
  LET idle    == 10 * p.idleRpm
      redline == 10 * p.redlineRpm
      \* 0.15 * (rpm / redline)^1.5
      rpmNormalized      == MulDiv(p.currentRpm, 10000, redline)
      internalResistance == MulDiv(rpmNormalized, Sqrt(rpmNormalized * 10000), 10000)
      resistanceFactor   == MulDiv(internalResistance, 15, 100)
      freeTargetRpm     == idle + MulDiv(redline - idle, f.currentThrottle, 1000)
      resistedTargetRpm == MulDiv(10000000 - resistanceFactor * (1000 - f.currentThrottle),
                                  freeTargetRpm, 10000000)
  IN  f @@ [targetRpm |-> Max(idle, resistedTargetRpm)]

(* resistance load (app.js:889-897) *)
ResistanceLoad(p, f) ==
  LET maxTorqueAtCurrentRpm == calcEngineTorque(p, p.currentRpm, 1000)
      \* (resistiveForce * wheelRadius) / (overallRatio * drivelineEfficiency)
      requiredTorque ==
        IF f.isCoupled
          THEN MulDiv(f.resistiveForce, 10 * ((10000000 * wheelRadius) \div 14),
                      f.overallRatio * drivelineEfficiency)
          ELSE 0
  IN  f @@ [maxTorque |-> maxTorqueAtCurrentRpm, requiredTorque |-> requiredTorque]

(* mutation of Load: the inertial term without its 0.35 cap and the sum   *)
(* without its clamp                                                       *)
LoadUncapped(f) ==
  LET resistanceLoad == IF f.maxTorque > 0
                          THEN Min(1000, MulDiv(f.requiredTorque, 1000, f.maxTorque))
                          ELSE 0
      inertialDenom  == MulDiv(f.maxTorque, f.overallRatio * drivelineEfficiency, 1000000)
      inertialNum    == MulDiv(Abs(f.accel), mass * wheelRadius, 14)
      inertialLoad   == IF f.isCoupled /\ f.accel > 0 /\ inertialDenom > 0
                          THEN MulDiv(inertialNum, 1000, inertialDenom)
                          ELSE 0
  IN  f @@ [resistanceLoad |-> resistanceLoad, inertialLoad |-> inertialLoad,
            zeroDivisor |-> FALSE,
            load |-> IF ~f.isCoupled THEN 50 ELSE resistanceLoad + inertialLoad]

(* inertial load and params.load (app.js:895-907) *)
Load(f) ==
  LET resistanceLoad == IF f.maxTorque > 0
                          THEN Min(1000, MulDiv(f.requiredTorque, 1000, f.maxTorque))
                          ELSE 0
      inertialTaken  == f.isCoupled /\ f.accel > 0
      \* maxTorqueAtCurrentRpm * overallRatio * drivelineEfficiency
      inertialDenom  == MulDiv(f.maxTorque, f.overallRatio * drivelineEfficiency, 1000000)
      \* mass * |accel| * wheelRadius, in torque units
      inertialNum    == MulDiv(Abs(f.accel), mass * wheelRadius, 14)
      inertialLoad   == IF inertialTaken
                          THEN IF f.maxTorque = 0 THEN 350      \* x / 0 = Infinity
                               ELSE Min(350, MulDiv(inertialNum, 1000, inertialDenom))
                          ELSE 0
  IN  f @@ [resistanceLoad |-> resistanceLoad, inertialLoad |-> inertialLoad,
            zeroDivisor |-> inertialTaken /\ f.maxTorque = 0,
            load |-> IF ~f.isCoupled THEN 50
                     ELSE Max(0, Min(1000, resistanceLoad + inertialLoad))]

(* mutation of EffectiveInertia: the falling branch without its factor 0.5 *)
EffectiveInertiaNoHalf(p, f) ==
  LET rising == f.targetRpm > p.currentRpm
      loadResistance == Min(9000, f.load * 7)
      engineBraking  == IF f.isCoupled THEN f.load * 3 ELSE 0
  IN  f @@ [rising |-> rising,
            effectiveInertia |->
              IF rising
                THEN p.inertia * 20000 + (1000 - p.inertia) * 2 * loadResistance
                ELSE p.inertia * 20000 + (1000 - p.inertia) * 2 * (10000 - engineBraking)]

(* effective inertia, in 1/20 000 000 (app.js:909-918) *)
EffectiveInertia(p, f) ==
  LET rising == f.targetRpm > p.currentRpm
      loadResistance == Min(9000, f.load * 7)                     \* 1/10000
      engineBraking  == IF f.isCoupled THEN f.load * 3 ELSE 0     \* 1/10000
  IN  f @@ [rising |-> rising,
            effectiveInertia |->
              IF rising
                THEN p.inertia * 20000 + (1000 - p.inertia) * 2 * loadResistance
                ELSE p.inertia * 20000 + (1000 - p.inertia) * (10000 - engineBraking)]

(* rpm * eff + target * (1 - eff), then the clamp (app.js:920-921) *)
RpmStep(p, f) ==
  LET rawRpm == f.targetRpm
                + MulDiv(p.currentRpm - f.targetRpm, f.effectiveInertia, 20000000)
  IN  f @@ [rawRpm |-> rawRpm,
            clampedRpm |-> ClampRpm(rawRpm, 10 * p.idleRpm, 10 * p.redlineRpm)]

(* mutation of RealVehicleRpm: the override floored at idleRpm * 0.75, the *)
(* bound of the free-rev clamp                                             *)
RealVehicleRpmFloor(p, s, now, f) ==
  LET timeSinceUpdate == now - s.lastGPSTime
      t            == IF s.lastGPSTime > 0
                        THEN Min(1000, MulDiv(timeSinceUpdate, 1000, Max(100, s.gpsInterval)))
                        ELSE 1000
      targetSpeed  == s.prevGpsSpeed + MulDiv(s.gpsSpeed - s.prevGpsSpeed, t, 1000)
      interpolated == Max(0, s.interpolatedSpeed
                             + MulDiv(targetSpeed - s.interpolatedSpeed, 120, 1000))
  IN  IF p.realVehicleMode
        THEN f @@ [interpolatedSpeed |-> interpolated,
                   currentRpm |-> ClampRpm(RpmFromSpeed(interpolated,
                                                        gearRatios[1] * finalDrive),
                                           10 * p.idleRpm, 10 * p.redlineRpm)]
        ELSE f @@ [interpolatedSpeed |-> s.interpolatedSpeed, currentRpm |-> f.clampedRpm]

(* mutation of RealVehicleRpm: the smoothing factor 1.2 for 0.12 *)
RealVehicleRpmOvershoot(p, s, now, f) ==
  LET overallRatio1st == gearRatios[1] * finalDrive
      timeSinceUpdate == now - s.lastGPSTime
      interval     == Max(100, s.gpsInterval)
      t            == IF s.lastGPSTime > 0
                        THEN Min(1000, MulDiv(timeSinceUpdate, 1000, interval))
                        ELSE 1000
      targetSpeed  == s.prevGpsSpeed + MulDiv(s.gpsSpeed - s.prevGpsSpeed, t, 1000)
      interpolated == Max(0, s.interpolatedSpeed
                             + MulDiv(targetSpeed - s.interpolatedSpeed, 1200, 1000))
      rpmFromSpeed == RpmFromSpeed(interpolated, overallRatio1st)
  IN  IF p.realVehicleMode
        THEN f @@ [interpolatedSpeed |-> interpolated,
                   currentRpm |-> Max(10 * p.idleRpm,
                                      Min(rpmFromSpeed, RpmCeiling(10 * p.redlineRpm)))]
        ELSE f @@ [interpolatedSpeed |-> s.interpolatedSpeed, currentRpm |-> f.clampedRpm]

(* real vehicle mode: rpm from the interpolated GPS speed (app.js:923-946) *)
RealVehicleRpm(p, s, now, f) ==
  LET overallRatio1st == gearRatios[1] * finalDrive
      timeSinceUpdate == now - s.lastGPSTime
      interval     == Max(100, s.gpsInterval)
      t            == IF s.lastGPSTime > 0
                        THEN Min(1000, MulDiv(timeSinceUpdate, 1000, interval))
                        ELSE 1000
      targetSpeed  == s.prevGpsSpeed + MulDiv(s.gpsSpeed - s.prevGpsSpeed, t, 1000)
      smoothFactor == 120
      interpolated == Max(0, s.interpolatedSpeed
                             + MulDiv(targetSpeed - s.interpolatedSpeed, smoothFactor, 1000))
      rpmFromSpeed == RpmFromSpeed(interpolated, overallRatio1st)
  IN  IF p.realVehicleMode
        THEN f @@ [interpolatedSpeed |-> interpolated,
                   currentRpm |-> Max(10 * p.idleRpm,
                                      Min(rpmFromSpeed, RpmCeiling(10 * p.redlineRpm)))]
        ELSE f @@ [interpolatedSpeed |-> s.interpolatedSpeed, currentRpm |-> f.clampedRpm]

(* mutation of Outcome: the speed integrated from the acceleration over a  *)
(* 50 ms frame instead of derived from the rpm                             *)
OutcomeIntegrated(p, v, s, f) ==
  [params |-> [p EXCEPT !.targetThrottle = f.targetThrottle,
                        !.currentThrottle = f.currentThrottle,
                        !.load = f.load,
                        !.currentRpm = f.currentRpm],
   vehicleState |-> [v EXCEPT !.gear = f.gear,
                              !.speed = Max(0, v.speed + f.accel \div 20)],
   sensorState  |-> [s EXCEPT !.interpolatedSpeed = f.interpolatedSpeed],
   locals |-> f]

(* speed from rpm and gear (app.js:948-951); the objects on exit *)
Outcome(p, v, s, f) ==
  [params |-> [p EXCEPT !.targetThrottle = f.targetThrottle,
                        !.currentThrottle = f.currentThrottle,
                        !.load = f.load,
                        !.currentRpm = f.currentRpm],
   vehicleState |-> [v EXCEPT !.gear = f.gear,
                              !.speed = IF f.isCoupled
                                          THEN SpeedFromRpm(f.currentRpm, f.overallRatio)
                                          ELSE 0],
   sensorState  |-> [s EXCEPT !.interpolatedSpeed = f.interpolatedSpeed],
   locals |-> f]

UpdatePhysics(p, v, s, now) ==
  Outcome(p, v, s,
    RealVehicleRpm(p, s, now,
      RpmStep(p,
        EffectiveInertia(p,
          Load(ResistanceLoad(p,
            TargetRpm(p, Accel(Forces(p, v, ThrottleStep(p, v, s))))))))))

----------------------------------------------------------------------------
(* Text of an input element: a number in 1/1000, or not a number *)

Num(n) == [nan |-> FALSE, v |-> n]
NaN == [nan |-> TRUE, v |-> 0]

(* parseInt: the integer part, toward zero *)
parseInt(text) ==
  IF text.nan THEN NaN
  ELSE Num(IF text.v >= 0 THEN text.v \div 1000 ELSE -((-text.v) \div 1000))

(* parseFloat, kept in 1/1000 *)
parseFloat(text) == text

(* x || d : d replaces NaN and 0 *)
OrDefault(x, d) == IF x.nan \/ x.v = 0 THEN d ELSE x.v

(* Math.max(lo, Math.min(hi, x)) *)
Clamp(lo, hi, x) == Max(lo, Min(hi, x))

(* the text an element shows for an integer *)
TextOfInt(n) == Num(1000 * n)

----------------------------------------------------------------------------
(* State *)

VARIABLES
  params,        \* the params object (app.js:164-186)
  vehicleState,  \* speed and gear of vehicleState (app.js:189-193)
  sensorState,   \* real vehicle mode sensor state (app.js:196-208)
  inputs,        \* value of the five engine parameter input elements
  isPlaying,     \* app.js:132
  audio,         \* audioCtx state, engineNode and effect graph, start button
  awaiting,      \* click handlers suspended at an await, per await point
  rafPending,    \* update callbacks scheduled with requestAnimationFrame
  published,     \* values last handed to the worklet's AudioParams
  frame,         \* locals of the last executed update()
  controls,      \* disabled state of the gear controls and the pedal
  boot,          \* position of the start-up script (loadSettings, URL)
  clock,         \* Date.now(), ms
  ticksLeft,     \* physics frames the behaviour may still execute
  clicks, edits, \* start clicks and settings changes the behaviour may still make
  synth,         \* EngineProcessor fields
  sample,        \* the sample process() handled last
  harmCase,      \* one pass of process()'s harmonic loop
  output,        \* outputs[0] after the last process() call: its channels
  instances,     \* EngineProcessor objects: their random, drift and backfire state
  torqueCase,    \* one evaluation of calcEngineTorque
  tripCase       \* one speed/rpm round trip

vars == <<params, vehicleState, sensorState, inputs, isPlaying, audio, awaiting,
          rafPending, published, frame, controls, boot, clock, ticksLeft, clicks,
          edits, synth, sample, harmCase, output, instances, torqueCase, tripCase>>

appVars == <<params, vehicleState, sensorState, inputs, isPlaying, audio, awaiting,
             rafPending, published, frame, controls, boot, clock, ticksLeft, clicks,
             edits>>
synthVars == <<synth, sample, harmCase, output, instances>>
pureVars == <<torqueCase, tripCase>>

----------------------------------------------------------------------------
(* Bounds *)

MaxTicks == 2       \* physics frames in a behaviour of Spec
MaxShiftTicks == 4  \* physics frames in a behaviour of SpecShift
MaxClicks == 3      \* clicks on the start button
MaxEdits == 1       \* settings changes (inputs, presets, road load, loads)

----------------------------------------------------------------------------
(* Parameter handlers *)

(* mutation of updateParamsFromUI: the values are stored without clamps *)
updateParamsUnclamped(p, inp) ==
  LET c == constraints
  IN  <<[p EXCEPT !.ncyl = OrDefault(parseInt(inp.ncyl), c.ncyl.default),
                  !.idleRpm = OrDefault(parseInt(inp.idleRpm), c.idleRpm.default),
                  !.redlineRpm = OrDefault(parseInt(inp.redlineRpm), c.redlineRpm.default),
                  !.inertia = OrDefault(parseFloat(inp.inertia), c.inertia.default),
                  !.noiseGain = OrDefault(parseFloat(inp.noiseGain), c.noiseGain.default)],
        inp>>

(* updateParamsFromUI (app.js:321-335): <<params, inputs>> afterwards *)
updateParamsFromUI(p, inp) ==
  LET c  == constraints
      ncyl    == Clamp(c.ncyl.min, c.ncyl.max,
                       OrDefault(parseInt(inp.ncyl), c.ncyl.default))
      idle    == Clamp(c.idleRpm.min, c.idleRpm.max,
                       OrDefault(parseInt(inp.idleRpm), c.idleRpm.default))
      redline == Clamp(c.redlineRpm.min, c.redlineRpm.max,
                       OrDefault(parseInt(inp.redlineRpm), c.redlineRpm.default))
      inertia == Clamp(c.inertia.min, c.inertia.max,
                       OrDefault(parseFloat(inp.inertia), c.inertia.default))
      noise   == Clamp(c.noiseGain.min, c.noiseGain.max,
                       OrDefault(parseFloat(inp.noiseGain), c.noiseGain.default))
      fix     == redline <= idle
      p1 == [p EXCEPT !.ncyl = ncyl, !.idleRpm = idle, !.inertia = inertia,
                      !.noiseGain = noise,
                      !.redlineRpm = IF fix THEN idle + 1000 ELSE redline]
  IN  <<p1, IF fix THEN [inp EXCEPT !.redlineRpm = TextOfInt(idle + 1000)] ELSE inp>>

(* applyPreset (app.js:304-316) *)
applyPreset(p, inp, presetName) ==
  IF presetName \notin PresetNames THEN <<p, inp>>
  ELSE LET preset == presets[presetName]
           inp1 == [ncyl |-> TextOfInt(preset.ncyl),
                    idleRpm |-> TextOfInt(preset.idleRpm),
                    redlineRpm |-> TextOfInt(preset.redlineRpm),
                    inertia |-> Num(preset.inertia),
                    noiseGain |-> Num(preset.noiseGain)]
       IN  updateParamsFromUI([p EXCEPT !.enginePreset = presetName], inp1)

(* setThrottle (app.js:1024-1027) *)
setThrottle(p, val) == [p EXCEPT !.targetThrottle = Max(0, Min(1000, val))]

(* getOverallRatio (app.js:801-805) on a vehicleState *)
getOverallRatio(v) == OverallRatioOf(v.gear)

(* mutation of adjustRpmForGearChange: the rpm moved half way to the rpm   *)
(* of the new gear instead of set to it                                    *)
adjustRpmSmoothed(p, v, playing) ==
  IF ~playing \/ v.speed < 1000 \/ OverallRatioOf(v.gear) = 0 THEN p
  ELSE [p EXCEPT !.currentRpm =
          (@ + ClampRpm(RpmFromSpeed(v.speed, OverallRatioOf(v.gear)),
                        10 * p.idleRpm, 10 * p.redlineRpm)) \div 2]

(* adjustRpmForGearChange (app.js:811-826): params afterwards; v already   *)
(* holds the new gear                                                      *)
adjustRpmForGearChange(p, v, playing) ==
  IF ~playing \/ v.speed < 1000 THEN p
  ELSE LET newOverallRatio == getOverallRatio(v)
       IN  IF newOverallRatio = 0 THEN p
           ELSE LET newRpm == RpmFromSpeed(v.speed, newOverallRatio)
                IN  [p EXCEPT !.currentRpm =
                       ClampRpm(newRpm, 10 * p.idleRpm, 10 * p.redlineRpm)]

----------------------------------------------------------------------------
(* Initial state: the objects as constructed (app.js:129-210) and the      *)
(* first updateParamsFromUI() (app.js:1183) on the page's default inputs   *)

DefaultInputs ==
  [ncyl |-> TextOfInt(constraints.ncyl.default),
   idleRpm |-> TextOfInt(constraints.idleRpm.default),
   redlineRpm |-> TextOfInt(constraints.redlineRpm.default),
   inertia |-> Num(constraints.inertia.default),
   noiseGain |-> Num(constraints.noiseGain.default)]

InitParams ==
  [currentRpm |-> 10000, currentThrottle |-> 0, targetThrottle |-> 0,
   ncyl |-> constraints.ncyl.default, noiseGain |-> constraints.noiseGain.default,
   idleRpm |-> constraints.idleRpm.default, enginePreset |-> "custom",
   redlineRpm |-> constraints.redlineRpm.default,
   inertia |-> constraints.inertia.default,
   load |-> 0, roadLoad |-> 0, realVehicleMode |-> FALSE,
   accelThreshold |-> 500, accelMax |-> 5000, cruiseThrottle |-> 150]

InitVehicleState == [speed |-> 0, gear |-> 1]

InitSensorState ==
  [gpsSpeed |-> 0, prevGpsSpeed |-> 0, gpsInterval |-> 1000, interpolatedSpeed |-> 0,
   acceleration |-> [x |-> 0, y |-> 0, z |-> 0], lastGPSTime |-> 0,
   watchId |-> 0, hasGPS |-> FALSE, hasAccelerometer |-> FALSE,
   motionListener |-> FALSE]   \* a 'devicemotion' listener is attached (app.js:514)

NoFrame ==
  [prevRpm |-> 0, prevSpeed |-> 0, gear |-> 0, targetThrottle |-> 0,
   currentThrottle |-> 0, overallRatio |-> 0, isCoupled |-> FALSE,
   engineTorque |-> 0, tractiveForce |-> 0, resistiveForce |-> 0, accel |-> 0,
   targetRpm |-> 0, maxTorque |-> 0, requiredTorque |-> 0, resistanceLoad |-> 0,
   inertialLoad |-> 0, zeroDivisor |-> FALSE, load |-> 0, rising |-> FALSE,
   effectiveInertia |-> 0, rawRpm |-> 0, clampedRpm |-> 0, interpolatedSpeed |-> 0,
   currentRpm |-> 0]

NotPublished ==
  [sent |-> FALSE, rpm |-> 0, throttle |-> 0, ncyl |-> 0, noiseGain |-> 0,
   turboMode |-> 0, boxerMode |-> 0, vtecMode |-> 0, fa24Mode |-> 0,
   redlineRpm |-> 0, load |-> 0, v8Mode |-> 0, rotaryMode |-> 0]

InitSynth == [revLimiterCycle |-> 0, revLimiterActive |-> FALSE, postLpfState |-> 0]
NoSample ==
  [n |-> 0, rpm |-> 0, redlineRpm |-> 0, revLimiterCut |-> 0, before |-> 0, run |-> <<>>]

InitApp ==
  /\ params = updateParamsFromUI(InitParams, DefaultInputs)[1]
  /\ inputs = updateParamsFromUI(InitParams, DefaultInputs)[2]
  /\ vehicleState = InitVehicleState
  /\ sensorState = InitSensorState
  /\ isPlaying = FALSE
  /\ audio = [ctx |-> "none", engineNode |-> FALSE, graph |-> "none",
              startDisabled |-> FALSE, status |-> ""]
  /\ awaiting = [suspend |-> 0, resume |-> 0, addModule |-> 0, impulse |-> 0]
  /\ rafPending = 0
  /\ published = NotPublished
  /\ frame = NoFrame
  /\ controls = [gearDisabled |-> FALSE, pedalDisabled |-> FALSE]
  /\ boot = "loadSettings"
  /\ clock = 0

IdleSynth ==
  /\ synth = InitSynth /\ sample = NoSample /\ harmCase = <<>>
  /\ output = [n |-> 0, channels |-> <<>>] /\ instances = <<>>
IdlePure == torqueCase = <<>> /\ tripCase = <<>>

NoBudget == clicks = 0 /\ edits = 0

Init ==
  /\ InitApp /\ ticksLeft = MaxTicks /\ clicks = MaxClicks /\ edits = MaxEdits
  /\ IdleSynth /\ IdlePure

----------------------------------------------------------------------------
(* The physics frame *)

ModeFlag(p, name) == IF p.enginePreset = name THEN 1 ELSE 0

(* the setValueAtTime calls of update (app.js:954-981) *)
Snapshot(p) ==
  [sent |-> TRUE, rpm |-> p.currentRpm, throttle |-> p.currentThrottle,
   ncyl |-> p.ncyl, noiseGain |-> p.noiseGain,
   turboMode |-> ModeFlag(p, "turbo"), boxerMode |-> ModeFlag(p, "fa24"),
   vtecMode |-> ModeFlag(p, "vtec"), fa24Mode |-> ModeFlag(p, "fa24"),
   redlineRpm |-> p.redlineRpm, load |-> p.load,
   v8Mode |-> ModeFlag(p, "v8"), rotaryMode |-> ModeFlag(p, "rotary")]

(* the body of update() past its isPlaying guard; hasNode is engineNode *)
RunUpdate(hasNode, pending) ==
  LET r == UpdatePhysics(params, vehicleState, sensorState, clock)
  IN  /\ ticksLeft > 0
      /\ ticksLeft' = ticksLeft - 1
      /\ params' = r.params
      /\ vehicleState' = r.vehicleState
      /\ sensorState' = r.sensorState
      /\ frame' = r.locals
      /\ published' = IF hasNode THEN Snapshot(r.params) ELSE published
      /\ rafPending' = pending + 1          \* requestAnimationFrame(update)

(* a scheduled update callback runs *)
FrameCallback ==
  /\ rafPending > 0
  /\ IF isPlaying
       THEN RunUpdate(audio.engineNode, rafPending - 1)
       ELSE /\ rafPending' = rafPending - 1
            /\ UNCHANGED <<params, vehicleState, sensorState, frame, published, ticksLeft>>
  /\ UNCHANGED <<inputs, isPlaying, audio, awaiting, controls, boot, clock, clicks, edits>>
  /\ UNCHANGED <<synthVars, pureVars>>

----------------------------------------------------------------------------
(* Start button (app.js:1088-1180).  The handler is async: it stops at     *)
(* each await and resumes when the promise settles.                        *)

(* lines 1168-1173: the engine starts and update() runs once at once *)
FinishStart(a, w) ==
  /\ isPlaying' = TRUE
  /\ audio' = [a EXCEPT !.status = "Running", !.startDisabled = FALSE]
  /\ awaiting' = w
  /\ RunUpdate(a.engineNode, rafPending)

(* lines 1106-1110: loading status, then the worklet module if not built *)
BeginLoading(a, w) ==
  LET a1 == [a EXCEPT !.status = "Loading...", !.startDisabled = TRUE]
  IN  IF ~a1.engineNode
        THEN /\ audio' = a1
             /\ awaiting' = [w EXCEPT !.addModule = @ + 1]
             /\ UNCHANGED <<isPlaying, params, vehicleState, sensorState, frame,
                            published, rafPending, ticksLeft>>
        ELSE FinishStart(a1, w)

StartClick ==
  /\ boot = "ready"
  /\ ~audio.startDisabled
  /\ clicks > 0
  /\ clicks' = clicks - 1
  /\ LET a == [audio EXCEPT !.ctx = IF @ = "none" THEN "running" ELSE @]
     IN  IF isPlaying
           THEN /\ audio' = a
                /\ awaiting' = [awaiting EXCEPT !.suspend = @ + 1]
                /\ UNCHANGED <<isPlaying, params, vehicleState, sensorState, frame,
                               published, rafPending, ticksLeft>>
         ELSE IF a.ctx = "suspended"
           THEN /\ audio' = a
                /\ awaiting' = [awaiting EXCEPT !.resume = @ + 1]
                /\ UNCHANGED <<isPlaying, params, vehicleState, sensorState, frame,
                               published, rafPending, ticksLeft>>
         ELSE BeginLoading(a, awaiting)
  /\ UNCHANGED <<inputs, controls, boot, clock, edits, synthVars, pureVars>>

(* await audioCtx.suspend() settles: lines 1096-1099 *)
SuspendDone ==
  /\ awaiting.suspend > 0
  /\ awaiting' = [awaiting EXCEPT !.suspend = @ - 1]
  /\ audio' = [audio EXCEPT !.ctx = "suspended", !.status = "Engine Stopped"]
  /\ isPlaying' = FALSE
  /\ UNCHANGED <<params, vehicleState, sensorState, frame, published, rafPending,
                 ticksLeft, inputs, controls, boot, clock, clicks, edits>>
  /\ UNCHANGED <<synthVars, pureVars>>

(* await audioCtx.resume() settles *)
ResumeDone ==
  /\ awaiting.resume > 0
  /\ BeginLoading([audio EXCEPT !.ctx = "running"],
                  [awaiting EXCEPT !.resume = @ - 1])
  /\ UNCHANGED <<inputs, controls, boot, clock, clicks, edits, synthVars, pureVars>>

(* await addModule settles: engineNode and the effect nodes are created,    *)
(* then the handler awaits createReverbImpulse (lines 1111-1129)           *)
AddModuleDone ==
  /\ awaiting.addModule > 0
  /\ awaiting' = [awaiting EXCEPT !.addModule = @ - 1, !.impulse = @ + 1]
  /\ audio' = [audio EXCEPT !.engineNode = TRUE,
                            !.graph = IF @ = "connected" THEN @ ELSE "partial"]
  /\ UNCHANGED <<isPlaying, params, vehicleState, sensorState, frame, published,
                 rafPending, ticksLeft, inputs, controls, boot, clock, clicks, edits>>
  /\ UNCHANGED <<synthVars, pureVars>>

(* await createReverbImpulse settles: the chain is connected (1130-1165) *)
ImpulseDone ==
  /\ awaiting.impulse > 0
  /\ FinishStart([audio EXCEPT !.graph = "connected"],
                 [awaiting EXCEPT !.impulse = @ - 1])
  /\ UNCHANGED <<inputs, controls, boot, clock, clicks, edits, synthVars, pureVars>>

(* an awaited promise rejects: the catch block (lines 1174-1179) *)
AwaitRejected(k) ==
  /\ awaiting[k] > 0
  /\ awaiting' = [awaiting EXCEPT ![k] = @ - 1]
  /\ audio' = [audio EXCEPT !.status = "Error", !.startDisabled = FALSE]
  /\ isPlaying' = FALSE
  /\ UNCHANGED <<params, vehicleState, sensorState, frame, published, rafPending,
                 ticksLeft, inputs, controls, boot, clock, clicks, edits>>
  /\ UNCHANGED <<synthVars, pureVars>>

----------------------------------------------------------------------------
(* Gear and throttle handlers *)

Gears == 0..6

(* common body: vehicleState.gear = gear; adjustRpmForGearChange() *)
ChangeGear(gear) ==
  LET v == [vehicleState EXCEPT !.gear = gear]
  IN  /\ vehicleState' = v
      /\ params' = adjustRpmForGearChange(params, v, isPlaying)
      /\ UNCHANGED <<sensorState, inputs, isPlaying, audio, awaiting, rafPending,
                     published, frame, controls, boot, clock, ticksLeft, clicks, edits>>
      /\ UNCHANGED <<synthVars, pureVars>>

(* gearInput 'change' (app.js:713-717): parseInt(value, 10) || 0 *)
GearInputChange(g) ==
  /\ boot = "ready" /\ ~controls.gearDisabled
  /\ ChangeGear(OrDefault(parseInt(TextOfInt(g)), 0))

(* gear button 'click' (app.js:720-728) *)
GearButtonClick(g) ==
  /\ boot = "ready" /\ ~controls.gearDisabled
  /\ ChangeGear(g)

(* keydown Digit1..Digit6 and KeyN (app.js:1029-1052) *)
GearKeyDown(g) ==
  /\ boot = "ready" /\ ~params.realVehicleMode
  /\ ChangeGear(g)

(* common body of the throttle handlers *)
Throttle(val) ==
  /\ params' = setThrottle(params, val)
  /\ UNCHANGED <<vehicleState, sensorState, inputs, isPlaying, audio, awaiting,
                 rafPending, published, frame, controls, boot, clock, ticksLeft, clicks,
                 edits>>
  /\ UNCHANGED <<synthVars, pureVars>>

(* keydown / keyup of Space, ArrowUp, KeyW (app.js:1029-1062) *)
ThrottleKey(down) ==
  /\ boot = "ready" /\ ~params.realVehicleMode
  /\ Throttle(IF down THEN 1000 ELSE 0)

(* pedal mousedown/touchstart and mouseup/touchend (app.js:1065-1085) *)
Pedal(down) ==
  /\ boot = "ready" /\ ~controls.pedalDisabled
  /\ IF ~params.realVehicleMode
       THEN Throttle(IF down THEN 1000 ELSE 0)
       ELSE UNCHANGED vars

----------------------------------------------------------------------------
(* Settings edits *)

(* what every settings edit leaves alone *)
EditFrame ==
  /\ edits > 0
  /\ edits' = edits - 1
  /\ UNCHANGED <<vehicleState, sensorState, isPlaying, audio, awaiting, rafPending,
                 published, frame, controls, boot, clock, ticksLeft, clicks>>
  /\ UNCHANGED <<synthVars, pureVars>>

(* 'input' on one of the five parameter elements (app.js:337-343) *)
ParamInput(field, text) ==
  /\ boot = "ready"
  /\ LET r == updateParamsFromUI([params EXCEPT !.enginePreset = "custom"],
                                 [inputs EXCEPT ![field] = text])
     IN  params' = r[1] /\ inputs' = r[2]
  /\ EditFrame

(* presetInput 'change' (app.js:345-354) *)
PresetChange(selectedPreset) ==
  /\ boot = "ready"
  /\ LET r == IF selectedPreset = "custom"
                THEN updateParamsFromUI([params EXCEPT !.enginePreset = "custom"], inputs)
                ELSE applyPreset(params, inputs, selectedPreset)
     IN  params' = r[1] /\ inputs' = r[2]
  /\ EditFrame

(* roadLoadInput 'input' (app.js:709-711) *)
RoadLoadInput(text) ==
  /\ boot = "ready"
  /\ params' = [params EXCEPT !.roadLoad = Max(0, Min(1000, OrDefault(parseFloat(text), 0)))]
  /\ UNCHANGED inputs
  /\ EditFrame

----------------------------------------------------------------------------
(* Start-up: loadSettings() (app.js:1217-1269), then loadSettingsFromURL() *)
(* (app.js:1457-1491).  Both run once, before any event handler.           *)

(* what the start-up steps leave alone *)
BootFrame ==
  UNCHANGED <<sensorState, isPlaying, audio, awaiting, rafPending, published,
              frame, controls, clock, ticksLeft, clicks, synthVars, pureVars>>

(* localStorage holds nothing: loadSettings returns at once *)
LoadNothing ==
  /\ boot = "loadSettings"
  /\ boot' = "loadSettingsFromURL"
  /\ UNCHANGED <<params, vehicleState, inputs, edits>>
  /\ BootFrame

(* localStorage holds what saveSettings wrote (app.js:1189-1212) *)
LoadSettings(settings) ==
  /\ boot = "loadSettings"
  /\ edits > 0
  /\ edits' = edits - 1
  /\ boot' = "loadSettingsFromURL"
  /\ LET inp == [ncyl |-> TextOfInt(settings.ncyl),
                 idleRpm |-> TextOfInt(settings.idleRpm),
                 redlineRpm |-> TextOfInt(settings.redlineRpm),
                 inertia |-> Num(settings.inertia),
                 noiseGain |-> Num(settings.noiseGain)]
         p1 == [params EXCEPT !.roadLoad = Max(0, Min(1000, settings.roadLoad)),
                              !.realVehicleMode = settings.realVehicleMode,
                              !.enginePreset = settings.enginePreset,
                              !.load = 0]
         r == updateParamsFromUI(p1, inp)
     IN  /\ params' = r[1]
         /\ inputs' = r[2]
         /\ vehicleState' = [vehicleState EXCEPT
                               !.gear = OrDefault(parseInt(TextOfInt(settings.gear)), 0)]
  /\ BootFrame

(* the URL has no #s= part *)
NoURLSettings ==
  /\ boot = "loadSettingsFromURL"
  /\ boot' = "ready"
  /\ UNCHANGED <<params, vehicleState, inputs, edits>>
  /\ BootFrame

(* the URL carries settings: data maps the keys present to their values *)
LoadSettingsFromURL(data) ==
  /\ boot = "loadSettingsFromURL"
  /\ edits > 0
  /\ edits' = edits - 1
  /\ boot' = "ready"
  /\ LET has(k) == k \in DOMAIN data
         inp == [ncyl |-> IF has("ncyl") THEN data.ncyl ELSE inputs.ncyl,
                 idleRpm |-> IF has("idle") THEN data.idle ELSE inputs.idleRpm,
                 redlineRpm |-> IF has("red") THEN data.red ELSE inputs.redlineRpm,
                 inertia |-> IF has("iner") THEN data.iner ELSE inputs.inertia,
                 noiseGain |-> IF has("noise") THEN data.noise ELSE inputs.noiseGain]
         p1 == [params EXCEPT
                  !.enginePreset = IF has("preset") THEN data.preset ELSE @,
                  !.roadLoad = IF has("load") THEN data.load ELSE @]
         r == updateParamsFromUI(p1, inp)
     IN  params' = r[1] /\ inputs' = r[2]
  /\ UNCHANGED vehicleState
  /\ BootFrame

----------------------------------------------------------------------------
(* Inputs the behaviours draw from *)

SavedSettings ==
  {[ncyl |-> 8, idleRpm |-> 750, redlineRpm |-> 6500, inertia |-> 970,
    noiseGain |-> 280, enginePreset |-> "v8", roadLoad |-> 500, gear |-> 0,
    realVehicleMode |-> TRUE]}

URLSettings ==
  {[load |-> -1000]}

ParamTexts ==
  {<<"idleRpm", TextOfInt(2000)>>, <<"redlineRpm", TextOfInt(12000)>>}

PresetChoices == {"rotary"}

RoadLoadTexts == {Num(1000)}

KeyGears == {0, 1, 6}
ButtonGears == {1, 6}
DropdownGears == {0, 6}

----------------------------------------------------------------------------
(* The application *)

Next ==
  \/ LoadNothing
  \/ \E settings \in SavedSettings : LoadSettings(settings)
  \/ NoURLSettings
  \/ \E data \in URLSettings : LoadSettingsFromURL(data)
  \/ StartClick
  \/ SuspendDone
  \/ ResumeDone
  \/ AddModuleDone
  \/ ImpulseDone
  \/ FrameCallback
  \/ \E g \in DropdownGears : GearInputChange(g)
  \/ \E g \in ButtonGears : GearButtonClick(g)
  \/ \E g \in KeyGears : GearKeyDown(g)
  \/ \E down \in BOOLEAN : ThrottleKey(down)
  \/ \E down \in BOOLEAN : Pedal(down)
  \/ \E t \in RoadLoadTexts : RoadLoadInput(t)
  \/ \E ft \in ParamTexts : ParamInput(ft[1], ft[2])
  \/ \E name \in PresetChoices : PresetChange(name)

Spec == Init /\ [][Next]_vars

----------------------------------------------------------------------------
(* Shifting at the top of the range: the same start-up and handlers, the   *)
(* one edit that raises the redline to its maximum, gears N, 1 and 6 from  *)
(* the keyboard, over more frames                                          *)

InitShift ==
  /\ InitApp /\ ticksLeft = MaxShiftTicks /\ clicks = MaxClicks /\ edits = MaxEdits
  /\ IdleSynth /\ IdlePure

NextShift ==
  \/ LoadNothing
  \/ NoURLSettings
  \/ StartClick
  \/ SuspendDone
  \/ ResumeDone
  \/ AddModuleDone
  \/ ImpulseDone
  \/ FrameCallback
  \/ \E g \in KeyGears : GearKeyDown(g)
  \/ ParamInput("redlineRpm", TextOfInt(constraints.redlineRpm.max))

SpecShift == InitShift /\ [][NextShift]_vars

----------------------------------------------------------------------------
(* The rev limiter of EngineProcessor.process (part_001:257-270, 501-502). *)
(* revLimiterCycle in 1/100, the cut in 1/1000, rpm in 0.1 rpm.            *)

REV_LIMITER_THRESHOLD == 98        \* hundredths
REV_LIMITER_RATE == 15             \* hundredths
REV_LIMITER_CUT_THRESHOLD == 30    \* hundredths
REV_LIMITER_CUT_VALUE == 50        \* thousandths

MaxSamples == 16    \* samples process() handles in a behaviour of SpecSynth

(* rpm > redlineRpm * REV_LIMITER_THRESHOLD *)
OverRevThreshold(rpm, redlineRpm) == rpm * 100 > redlineRpm * REV_LIMITER_THRESHOLD

(* mutation of RevLimiter: the counter saturates instead of wrapping *)
RevLimiterSaturating(st, rpm, redlineRpm) ==
  IF OverRevThreshold(rpm, redlineRpm)
    THEN LET cycle == Min(100, st.revLimiterCycle + REV_LIMITER_RATE)
         IN  [revLimiterCycle |-> cycle, revLimiterActive |-> TRUE,
              revLimiterCut |-> IF cycle < REV_LIMITER_CUT_THRESHOLD
                                  THEN REV_LIMITER_CUT_VALUE ELSE 1000]
    ELSE [revLimiterCycle |-> 0, revLimiterActive |-> FALSE, revLimiterCut |-> 1000]

(* one sample of the rev limiter: the fields afterwards and the cut *)
RevLimiter(st, rpm, redlineRpm) ==
  IF OverRevThreshold(rpm, redlineRpm)
    THEN LET advanced == st.revLimiterCycle + REV_LIMITER_RATE
             cycle    == IF advanced > 100 THEN 0 ELSE advanced
         IN  [revLimiterCycle |-> cycle, revLimiterActive |-> TRUE,
              revLimiterCut |-> IF cycle < REV_LIMITER_CUT_THRESHOLD
                                  THEN REV_LIMITER_CUT_VALUE ELSE 1000]
    ELSE [revLimiterCycle |-> 0, revLimiterActive |-> FALSE, revLimiterCut |-> 1000]

(* the loop body of process() for one sample; sample.run keeps the cuts of *)
(* the samples over the threshold since the last one that was not          *)
ProcessSample(rpm, redlineRpm) ==
  /\ sample.n < MaxSamples
  /\ LET r == RevLimiter(synth, rpm, redlineRpm)
     IN  /\ synth' = [synth EXCEPT !.revLimiterCycle = r.revLimiterCycle,
                                   !.revLimiterActive = r.revLimiterActive]
         /\ sample' = [n |-> sample.n + 1, rpm |-> rpm, redlineRpm |-> redlineRpm,
                       revLimiterCut |-> r.revLimiterCut,
                       before |-> synth.revLimiterCycle,
                       run |-> IF OverRevThreshold(rpm, redlineRpm)
                                 THEN Append(sample.run, r.revLimiterCut)
                                 ELSE <<>>]
  /\ UNCHANGED <<appVars, pureVars, harmCase, output, instances>>

(* rpm values around the threshold of each redline *)
SampleRedlines == {70000, 120000}
SampleRpms(redlineRpm) ==
  {redlineRpm \div 2, (redlineRpm * REV_LIMITER_THRESHOLD) \div 100,
   (redlineRpm * REV_LIMITER_THRESHOLD) \div 100 + 1, redlineRpm}

InitSynthSpec == InitApp /\ ticksLeft = 0 /\ NoBudget /\ IdleSynth /\ IdlePure

NextSynth ==
  \E redlineRpm \in SampleRedlines : \E rpm \in SampleRpms(redlineRpm) :
    ProcessSample(rpm, redlineRpm)

SpecSynth == InitSynthSpec /\ [][NextSynth]_vars

----------------------------------------------------------------------------
(* calcEngineTorque and the speed/rpm conversions on their own: one        *)
(* evaluation per behaviour, over a grid of arguments                      *)

TorqueStep == 50    \* spacing of the rpm grid of EvalTorque, 0.1 rpm
TripStep == 97      \* spacing of the rpm grid of RoundTrip, 0.1 rpm

(* <<params, inputs>> of an engine set up from the inputs' texts *)
SetupFor(inp) == updateParamsFromUI(InitParams, inp)

EngineSetups ==
  {SetupFor(DefaultInputs),
   applyPreset(InitParams, DefaultInputs, "rotary"),
   SetupFor([DefaultInputs EXCEPT !.idleRpm = TextOfInt(constraints.idleRpm.max),
                                  !.redlineRpm = TextOfInt(constraints.redlineRpm.max),
                                  !.inertia = Num(constraints.inertia.min)])}

(* lo, lo + step, ... up to hi *)
Steps(lo, hi, step) == {lo + k * step : k \in 0..((hi - lo) \div step)}

(* calcEngineTorque(rpm, throttle), with the values the claims compare it to *)
EvalTorque(p, rpm, throttle) ==
  /\ torqueCase' = [idleRpm |-> 10 * p.idleRpm, redlineRpm |-> 10 * p.redlineRpm,
                    rpm |-> rpm, throttle |-> throttle,
                    torque |-> calcEngineTorque(p, rpm, throttle),
                    above  |-> calcEngineTorque(p, rpm + TorqueStep, throttle),
                    closed |-> calcEngineTorque(p, rpm, 0),
                    full   |-> calcEngineTorque(p, rpm, 1000)]
  /\ UNCHANGED <<appVars, synthVars, tripCase>>

(* the speed update() derives from (rpm, gear) (app.js:948-951), taken     *)
(* back through the snap formula and through adjustRpmForGearChange        *)
RoundTrip(p, rpm, gear) ==
  /\ LET ratio == OverallRatioOf(gear)
         speed == SpeedFromRpm(rpm, ratio)
         v     == [speed |-> speed, gear |-> gear]
     IN  tripCase' = [rpm |-> rpm, gear |-> gear, speed |-> speed,
                      back |-> RpmFromSpeed(speed, ratio),
                      snapped |-> adjustRpmForGearChange(
                                    [p EXCEPT !.currentRpm = rpm], v, TRUE).currentRpm]
  /\ UNCHANGED <<appVars, synthVars, torqueCase>>

InitPure == InitApp /\ ticksLeft = 0 /\ NoBudget /\ IdleSynth /\ IdlePure

(* every argument of the torque grid *)
EvalTorqueCases ==
  \E su \in EngineSetups :
    \E rpm \in Steps(10 * su[1].idleRpm, 10 * su[1].redlineRpm, TorqueStep) :
      \E throttle \in {0, 250, 500, 1000} : EvalTorque(su[1], rpm, throttle)

(* every argument of the round-trip grid *)
RoundTripCases ==
  \E su \in EngineSetups :
    \E rpm \in Steps(RpmFloor(10 * su[1].idleRpm), RpmCeiling(10 * su[1].redlineRpm),
                     TripStep) :
      \E gear \in 1..6 : RoundTrip(su[1], rpm, gear)

NextPure ==
  \/ IdlePure /\ EvalTorqueCases
  \/ IdlePure /\ RoundTripCases

SpecPure == InitPure /\ [][NextPure]_vars

----------------------------------------------------------------------------
(* Driving: the engine is running and a frame has just ended with the      *)
(* drivetrain in gear g at some rpm of the clamp range, so the speed is    *)
(* the one update() derives from that rpm and gear                         *)

MaxDriveTicks == 2  \* physics frames in a behaviour of SpecDrive
MaxGearTicks == 1   \* physics frames in a behaviour of SpecGear

(* rpm values across [idleRpm*0.75, redlineRpm*1.05], 0.1 rpm *)
RpmGrid(p) ==
  LET idle == 10 * p.idleRpm
      redline == 10 * p.redlineRpm
  IN  {RpmFloor(idle), idle, RpmCeiling(redline), redline}
        \cup {idle + ((redline - idle) * k) \div 10 : k \in {2, 4, 6, 8}}

Running(su, rpm, gear, currentThrottle, targetThrottle, roadLoad, playing) ==
  LET ratio == OverallRatioOf(gear)
      p == [su[1] EXCEPT !.currentRpm = rpm, !.currentThrottle = currentThrottle,
                         !.targetThrottle = targetThrottle, !.roadLoad = roadLoad,
                         !.load = IF ratio > 0 THEN 0 ELSE 50]
  IN  /\ params = p
      /\ inputs = su[2]
      /\ vehicleState = [gear |-> gear,
                         speed |-> IF ratio > 0 THEN SpeedFromRpm(rpm, ratio) ELSE 0]
      /\ sensorState = InitSensorState
      /\ isPlaying = playing
      /\ audio = [ctx |-> IF playing THEN "running" ELSE "suspended",
                  engineNode |-> TRUE, graph |-> "connected", startDisabled |-> FALSE,
                  status |-> IF playing THEN "Running" ELSE "Engine Stopped"]
      /\ awaiting = [suspend |-> 0, resume |-> 0, addModule |-> 0, impulse |-> 0]
      /\ rafPending = 1
      /\ published = Snapshot(p)
      /\ frame = NoFrame
      /\ controls = [gearDisabled |-> FALSE, pedalDisabled |-> FALSE]
      /\ boot = "ready"
      /\ clock = 0

InitDrive ==
  /\ \E su \in EngineSetups : \E rpm \in RpmGrid(su[1]) : \E gear \in Gears :
       \E currentThrottle \in {0, 500, 1000} : \E roadLoad \in {0, 1000} :
         Running(su, rpm, gear, currentThrottle, 0, roadLoad, TRUE)
  /\ ticksLeft = MaxDriveTicks /\ NoBudget
  /\ IdleSynth /\ IdlePure

NextDrive ==
  \/ FrameCallback
  \/ \E down \in BOOLEAN : ThrottleKey(down)
  \/ GearKeyDown(0)

SpecDrive == InitDrive /\ [][NextDrive]_vars

InitGear ==
  /\ \E su \in EngineSetups : \E rpm \in RpmGrid(su[1]) : \E gear \in Gears :
       \E playing \in BOOLEAN : Running(su, rpm, gear, 0, 0, 0, playing)
  /\ ticksLeft = MaxGearTicks /\ NoBudget
  /\ IdleSynth /\ IdlePure

NextGear ==
  \/ FrameCallback
  \/ \E g \in Gears : GearInputChange(g)
  \/ \E g \in Gears : GearButtonClick(g)
  \/ \E g \in Gears : GearKeyDown(g)

SpecGear == InitGear /\ [][NextGear]_vars

----------------------------------------------------------------------------
(* The harmonic loop of EngineProcessor.process (part_001:239-240,         *)
(* 272-281, 329-359).  Frequencies in mHz, rpm in 0.1 rpm; the product of  *)
(* jitter and drift, which the code draws with Math.random(), in 1/1000.   *)

HARMONIC_COUNT == 24
HARMONIC_ROLLOFF_FREQ == 4000000      \* mHz
HARMONIC_ROLLOFF_RANGE == 10000000    \* mHz

(* f_fire = (rpm / 60) * (ncyl / 2) * jitter * drift *)
FireFrequency(rpm, ncyl, wobble) == (rpm * ncyl * wobble) \div 1200

(* nyquist = sampleRate / 2 *)
Nyquist(sampleRate) == sampleRate * 500

(* the factor of the roll-off above HARMONIC_ROLLOFF_FREQ, 1/1000 *)
Rolloff(freq) ==
  IF freq > HARMONIC_ROLLOFF_FREQ
    THEN Max(0, 1000 - MulDiv(freq - HARMONIC_ROLLOFF_FREQ, 1000, HARMONIC_ROLLOFF_RANGE))
    ELSE 1000

(* mutation of HarmonicLoop: a harmonic exactly at Nyquist is kept *)
RECURSIVE HarmonicLoopInclusive(_, _, _)
HarmonicLoopInclusive(k, fFire, nyquist) ==
  IF k > HARMONIC_COUNT \/ k * fFire > nyquist THEN <<>>
  ELSE <<[k |-> k, freq |-> k * fFire, rolloff |-> Rolloff(k * fFire)]>>
         \o HarmonicLoopInclusive(k + 1, fFire, nyquist)

(* for (k = 1; k <= n_harm; k++) { if (freq >= nyquist) break; ... }: the  *)
(* harmonics whose term is added to the signal, in order                   *)
RECURSIVE HarmonicLoop(_, _, _)
HarmonicLoop(k, fFire, nyquist) ==
  IF k > HARMONIC_COUNT \/ k * fFire >= nyquist THEN <<>>
  ELSE <<[k |-> k, freq |-> k * fFire, rolloff |-> Rolloff(k * fFire)]>>
         \o HarmonicLoop(k + 1, fFire, nyquist)

(* the harmonic synthesis of one sample *)
EvalHarmonics(rpm, ncyl, wobble, sampleRate) ==
  /\ harmCase' = [rpm |-> rpm, ncyl |-> ncyl, sampleRate |-> sampleRate,
                  fFire |-> FireFrequency(rpm, ncyl, wobble),
                  harmonics |-> HarmonicLoop(1, FireFrequency(rpm, ncyl, wobble),
                                             Nyquist(sampleRate))]
  /\ UNCHANGED <<appVars, pureVars, synth, sample, output, instances>>

HarmRpms == {0, 9000, 60000, 61000, 70000, 120000}
HarmCylinders == {1, 4, 8, 12}
HarmWobbles == {850, 1000, 1150}
SampleRates == {8000, 44100, 48000}

InitHarm == InitApp /\ ticksLeft = 0 /\ NoBudget /\ IdleSynth /\ IdlePure

NextHarm ==
  /\ harmCase = <<>>
  /\ \E rpm \in HarmRpms : \E ncyl \in HarmCylinders : \E wobble \in HarmWobbles :
       \E sampleRate \in SampleRates : EvalHarmonics(rpm, ncyl, wobble, sampleRate)

SpecHarm == InitHarm /\ [][NextHarm]_vars

----------------------------------------------------------------------------
(* The output stage of EngineProcessor.process (part_001:233-237, 291-295, *)
(* 420, 504-523): distortion, post filter, volume, channel copy.  Signals  *)
(* and gains in 1/1000, rpm in 0.1 rpm.  What the earlier stages of the    *)
(* sample hand to the distortion is an input of the step.                  *)

VTEC_CROSSOVER_CENTER == 56000
VTEC_CROSSOVER_WIDTH == 9000
LOAD_STRESS_BASE == 300
LOAD_STRESS_THROTTLE == 700
DISTORTION_BASE == 900
DISTORTION_THROTTLE == 2200
DISTORTION_VTEC == 350
DISTORTION_FA24 == 280
DISTORTION_LOAD == 400
POST_LPF_ALPHA_BASE == 120
POST_LPF_ALPHA_THROTTLE == 100
POST_LPF_MIX_FILTERED == 820
POST_LPF_MIX_DRY == 180
MASTER_VOLUME == 340

BlockLen == 2     \* samples of a block (channel.length)
MaxBlocks == 2    \* process() calls in a behaviour of SpecOut

(* vtecMode * smoothstep((rpm - (center - width/2)) / width) *)
VtecBlend(rpm, vtecMode) ==
  LET x == MulDiv(rpm - (VTEC_CROSSOVER_CENTER - VTEC_CROSSOVER_WIDTH \div 2), 1000,
                  VTEC_CROSSOVER_WIDTH)
      vtecBlendRaw == Min(1000, Max(0, x))
  IN  vtecMode * MulDiv(MulDiv(vtecBlendRaw, vtecBlendRaw, 1000),
                        3000 - 2 * vtecBlendRaw, 1000)

(* mutation of Tanh: no saturation *)
TanhLinear(x) == x

(* Math.tanh, by its Pade approximant x(27 + x^2)/(27 + 9x^2) on [-3, 3]   *)
(* and its limits -1 and 1 outside                                         *)
Tanh(x) ==
  IF x >= 3000 THEN 1000
  ELSE IF x <= -3000 THEN -1000
  ELSE MulDiv(x, 27000000 + x * x, 27000000 + 9 * x * x)

(* const drive = ... (part_001:506) *)
Drive(q) ==
  LET loadStress == MulDiv(q.load, LOAD_STRESS_BASE
                                     + MulDiv(LOAD_STRESS_THROTTLE, q.throttle, 1000), 1000)
  IN  DISTORTION_BASE + MulDiv(DISTORTION_THROTTLE, q.throttle, 1000)
        + MulDiv(DISTORTION_VTEC, VtecBlend(q.rpm, q.vtecMode), 1000)
        + DISTORTION_FA24 * q.fa24Mode + MulDiv(DISTORTION_LOAD, loadStress, 1000)

(* distortion, post filter and volume of one sample: the new postLpfState  *)
(* and the sample written to channel[i]                                    *)
OutputStage(postLpfState, signal, q) ==
  LET distorted == Tanh(MulDiv(signal, Drive(q), 1000))
      postLpfAlpha == POST_LPF_ALPHA_BASE + MulDiv(POST_LPF_ALPHA_THROTTLE, q.throttle, 1000)
      filtered == postLpfState + MulDiv(distorted - postLpfState, postLpfAlpha, 1000)
      mixed == MulDiv(POST_LPF_MIX_FILTERED * filtered + POST_LPF_MIX_DRY * distorted,
                      1, 1000)
  IN  [postLpfState |-> filtered, out |-> MulDiv(mixed, MASTER_VOLUME, 1000)]

(* for (i = 0; i < channel.length; i++): the state after the block and the *)
(* samples written to channel 0                                            *)
RECURSIVE RenderFrom(_, _, _, _)
RenderFrom(postLpfState, signals, i, q) ==
  IF i > Len(signals) THEN [postLpfState |-> postLpfState, channel |-> <<>>]
  ELSE LET s == OutputStage(postLpfState, signals[i], q)
           rest == RenderFrom(s.postLpfState, signals, i + 1, q)
       IN  [postLpfState |-> rest.postLpfState, channel |-> <<s.out>> \o rest.channel]

(* one call of process(): nothing without a channel 0; else channel 0 is   *)
(* rendered and set into every other channel of the output                 *)
ProcessBlock(signals, q, nChannels) ==
  /\ output.n < MaxBlocks
  /\ IF nChannels = 0
       THEN /\ output' = [n |-> output.n + 1, channels |-> <<>>]
            /\ UNCHANGED synth
       ELSE LET r == RenderFrom(synth.postLpfState, signals, 1, q)
            IN  /\ synth' = [synth EXCEPT !.postLpfState = r.postLpfState]
                /\ output' = [n |-> output.n + 1,
                              channels |-> [c \in 1..nChannels |-> r.channel]]
  /\ UNCHANGED <<appVars, pureVars, sample, harmCase, instances>>

(* what the earlier stages may hand over, the k-rate parameters, channels *)
PreSignals == {-20000, 400}
BlockSignals == [1..BlockLen -> PreSignals]
BlockParams ==
  {[rpm |-> 9000, throttle |-> 0, load |-> 0, vtecMode |-> 0, fa24Mode |-> 0],
   [rpm |-> 70000, throttle |-> 1000, load |-> 1000, vtecMode |-> 1, fa24Mode |-> 1]}
ChannelCounts == {0, 1, 2}

InitOut == InitApp /\ ticksLeft = 0 /\ NoBudget /\ IdleSynth /\ IdlePure

NextOut ==
  \E signals \in BlockSignals : \E q \in BlockParams : \E nChannels \in ChannelCounts :
    ProcessBlock(signals, q, nChannels)

SpecOut == InitOut /\ [][NextOut]_vars

----------------------------------------------------------------------------
(* The random and backfire part of EngineProcessor (part_001:171-214,      *)
(* 272-281, 417, 466-472).  A value of Math.random() is in 1/1000; the     *)
(* random walk is in 1e-9, the jitter in 1e-6, the backfire envelope and   *)
(* the throttle in 1/1000, rpm in 0.1 rpm.                                 *)

JITTER_BASE == 1000                \* millionths
JITTER_RANGE == 3000               \* millionths
RANDOM_WALK_RATE == 150000         \* 1e-9
RANDOM_WALK_DECAY == 9995          \* ten-thousandths
BACKFIRE_DECAY == 94               \* hundredths
BACKFIRE_THRESHOLD == 300          \* thousandths
BACKFIRE_CENTER_RPM == 45000       \* 0.1 rpm
BACKFIRE_WIDTH == 35000            \* 0.1 rpm

(* the constructor: random is the Math.random() drawn for phaseOffsets[0]  *)
NewProcessor(random) ==
  [phaseOffset |-> MulDiv(random, TwoPi, 1000), randomWalk |-> 0,
   backfirePulse |-> 0, lastThrottle |-> 0,
   n |-> 0, fFire |-> 0, white |-> 0, throttleDrop |-> 0, triggered |-> FALSE]

(* one sample of process(): jitter and random walk (part_001:272-281), the *)
(* white noise (417), the backfire (466-472).  q is the parameter          *)
(* snapshot, rnd the values Math.random() returns in this sample.          *)
ProcessorSample(st, q, rnd) ==
  LET jitterAmount == JITTER_BASE + MulDiv(JITTER_RANGE, 1000 - q.throttle, 1000)
      jitter == MulDiv(rnd.jitter - 500, jitterAmount, 1000)
      randomWalk == MulDiv(st.randomWalk + MulDiv(rnd.walk - 500, RANDOM_WALK_RATE, 1000),
                           RANDOM_WALK_DECAY, 10000)
      throttleDrop == Max(0, st.lastThrottle - q.throttle)
      decelWindow == Max(0, 1000 - MulDiv(Abs(q.rpm - BACKFIRE_CENTER_RPM), 1000,
                                          BACKFIRE_WIDTH))
      backfireTrigger == IF throttleDrop > BACKFIRE_THRESHOLD THEN rnd.trigger ELSE 0
  IN  [st EXCEPT !.randomWalk = randomWalk,
                 !.backfirePulse = Max(MulDiv(@, BACKFIRE_DECAY, 100),
                                       MulDiv(backfireTrigger, decelWindow, 1000)),
                 !.lastThrottle = q.throttle,
                 !.n = @ + 1,
                 !.fFire = FireFrequency(q.rpm, q.ncyl,
                                         1000 + (jitter + randomWalk \div 1000) \div 1000),
                 !.white = 2 * rnd.white - 1000,
                 !.throttleDrop = throttleDrop,
                 !.triggered = throttleDrop > BACKFIRE_THRESHOLD]

(* what the synthesizer steps leave alone *)
InstanceFrame ==
  UNCHANGED <<appVars, pureVars, synth, sample, harmCase, output>>

MaxTwinSamples == 3  \* samples each instance handles in a behaviour of SpecTwin

Randoms == {0, 500, 999}
RandomDraws ==
  {[jitter |-> 0, walk |-> 0, white |-> 0, trigger |-> 0],
   [jitter |-> 500, walk |-> 500, white |-> 500, trigger |-> 500],
   [jitter |-> 999, walk |-> 999, white |-> 999, trigger |-> 999]}
TwinSnapshots ==
  {[rpm |-> 30000, throttle |-> 1000, ncyl |-> 4],
   [rpm |-> 50000, throttle |-> 0, ncyl |-> 4]}

(* two processors are constructed *)
ConstructTwins(r1, r2) ==
  /\ instances = <<>>
  /\ instances' = <<NewProcessor(r1), NewProcessor(r2)>>
  /\ InstanceFrame

(* both processors handle one sample with the same parameter snapshot *)
TwinSample(q, rnd1, rnd2) ==
  /\ Len(instances) = 2
  /\ instances[1].n < MaxTwinSamples
  /\ instances' = <<ProcessorSample(instances[1], q, rnd1),
                    ProcessorSample(instances[2], q, rnd2)>>
  /\ InstanceFrame

InitTwin == InitApp /\ ticksLeft = 0 /\ NoBudget /\ IdleSynth /\ IdlePure

NextTwin ==
  \/ \E r1 \in Randoms : \E r2 \in Randoms : ConstructTwins(r1, r2)
  \/ \E q \in TwinSnapshots : \E rnd1 \in RandomDraws : \E rnd2 \in RandomDraws :
       TwinSample(q, rnd1, rnd2)

SpecTwin == InitTwin /\ [][NextTwin]_vars

----------------------------------------------------------------------------
(* Lifting off: the driver holds full throttle, then releases the key; the *)
(* frames publish the smoothed throttle and one processor renders samples  *)
(* with the values published last.  The audio thread renders a quantum of  *)
(* 128 samples every 2.7 ms and the frames are a display refresh apart, so *)
(* samples are rendered with every published throttle before the next      *)
(* frame replaces it.                                                      *)

MaxBackfireTicks == 16  \* physics frames in a behaviour of SpecBackfire
QuantumLen == 2         \* samples of a render quantum in SpecBackfire

(* what Math.random() returns in the samples of the behaviours: the drift  *)
(* stays where it is, a trigger is loud                                    *)
BackfireDraws == {[jitter |-> 500, walk |-> 500, white |-> 500, trigger |-> 999]}

(* one sample of process() with the AudioParam values set last; n is the   *)
(* index i of the sample in its quantum, popped records that some sample   *)
(* so far raised the envelope                                              *)
RenderSample(rnd) ==
  /\ Len(instances) = 1
  /\ published.sent
  /\ LET q == [rpm |-> published.rpm, throttle |-> published.throttle,
               ncyl |-> published.ncyl]
     IN  instances' = <<[ProcessorSample(instances[1], q, rnd)
                           EXCEPT !.n = @ % QuantumLen,
                                  !.popped = \/ instances[1].popped
                                             \/ q.throttle + BACKFIRE_THRESHOLD
                                                  < instances[1].lastThrottle]>>
  /\ InstanceFrame

(* a frame callback that finds the last published throttle rendered *)
FrameAfterSample ==
  /\ instances[1].lastThrottle = published.throttle
  /\ FrameCallback

InitBackfire ==
  /\ \E rpm \in {45000, 65000} :
       Running(SetupFor(DefaultInputs), rpm, 0, 1000, 1000, 0, TRUE)
  /\ ticksLeft = MaxBackfireTicks /\ NoBudget
  /\ synth = InitSynth /\ sample = NoSample /\ harmCase = <<>>
  /\ output = [n |-> 0, channels |-> <<>>]
  /\ instances = <<NewProcessor(500) @@ [popped |-> FALSE]>>
  /\ IdlePure

NextBackfire ==
  \/ FrameAfterSample
  \/ ThrottleKey(FALSE)
  \/ \E rnd \in BackfireDraws : RenderSample(rnd)

SpecBackfire == InitBackfire /\ [][NextBackfire]_vars

----------------------------------------------------------------------------
(* The start button on its own: clicks, the settling or rejection of the   *)
(* awaited promises, and frame callbacks, from a freshly loaded page       *)

MaxLifeTicks == 3   \* physics frames in a behaviour of SpecLife
MaxLifeClicks == 4  \* clicks on the start button in a behaviour of SpecLife

Awaits == {"suspend", "resume", "addModule", "impulse"}

InitLife ==
  /\ InitApp /\ ticksLeft = MaxLifeTicks /\ clicks = MaxLifeClicks /\ edits = 0
  /\ IdleSynth /\ IdlePure

NextLife ==
  \/ LoadNothing
  \/ NoURLSettings
  \/ StartClick
  \/ SuspendDone
  \/ ResumeDone
  \/ AddModuleDone
  \/ ImpulseDone
  \/ \E k \in Awaits : AwaitRejected(k)
  \/ FrameCallback

SpecLife == InitLife /\ [][NextLife]_vars

----------------------------------------------------------------------------
(* The settings on their own: start-up loads, then parameter inputs,       *)
(* preset selections and road load inputs, over texts inside, at the edge  *)
(* of, and outside every range, and texts that are no number               *)

MaxParamEdits == 2  \* settings changes in a behaviour of SpecSettings

ParamFields == {"ncyl", "idleRpm", "redlineRpm", "inertia", "noiseGain"}

EdgeTexts ==
  {NaN, Num(-5000), Num(0), Num(500), Num(800), Num(990), Num(1000), Num(12000),
   Num(500000), Num(2000000), Num(3000000), Num(12000000), Num(99000000)}

StoredSettings ==
  SavedSettings \cup
    {[ncyl |-> 99, idleRpm |-> 100, redlineRpm |-> 100, inertia |-> 0,
      noiseGain |-> 5000, enginePreset |-> "custom", roadLoad |-> 7000, gear |-> 9,
      realVehicleMode |-> FALSE]}

SharedSettings ==
  URLSettings \cup
    {[ncyl |-> Num(0), idle |-> Num(99000000), red |-> Num(1000), iner |-> NaN,
      noise |-> Num(0), preset |-> "turbo", load |-> 3000],
     [idle |-> Num(2000000), red |-> Num(-5000)]}

InitSettings ==
  /\ InitApp /\ ticksLeft = 0 /\ clicks = 0 /\ edits = MaxParamEdits
  /\ IdleSynth /\ IdlePure

NextSettings ==
  \/ LoadNothing
  \/ \E settings \in StoredSettings : LoadSettings(settings)
  \/ NoURLSettings
  \/ \E data \in SharedSettings : LoadSettingsFromURL(data)
  \/ \E field \in ParamFields : \E text \in EdgeTexts : ParamInput(field, text)
  \/ \E selectedPreset \in PresetNames \cup {"custom", "diesel"} :
       PresetChange(selectedPreset)
  \/ \E text \in EdgeTexts : RoadLoadInput(text)

SpecSettings == InitSettings /\ [][NextSettings]_vars

----------------------------------------------------------------------------
(* Real vehicle mode: the mode switch, the sensor callbacks, the three     *)
(* estimator inputs and the frames of a running engine.  GPS speeds are in *)
(* speed units, accelerations in 0.001 m/s^2, times in ms.                 *)

MaxRealTicks == 3   \* physics frames in a behaviour of SpecReal
MaxRealEdits == 2   \* mode switches and estimator inputs in a behaviour of SpecReal
MaxClock == 800     \* Date.now() at the end of a behaviour of SpecReal, ms

(* what the sensor callbacks leave alone *)
SensorFrame ==
  /\ UNCHANGED <<params, vehicleState, inputs, isPlaying, audio, awaiting, rafPending,
                 published, frame, controls, boot, clock, ticksLeft, clicks, edits>>
  /\ UNCHANGED <<synthVars, pureVars>>

(* the clock advances between two callbacks *)
TimePasses(ms) ==
  /\ clock + ms <= MaxClock
  /\ clock' = clock + ms
  /\ UNCHANGED <<params, vehicleState, sensorState, inputs, isPlaying, audio, awaiting,
                 rafPending, published, frame, controls, boot, ticksLeft, clicks, edits>>
  /\ UNCHANGED <<synthVars, pureVars>>

(* watchPosition success callback (app.js:447-469); reading is             *)
(* position.coords.speed, NaN standing for null                            *)
GpsPosition(reading) ==
  LET now == clock
      newSpeed == OrDefault(reading, 0)
      elapsed == now - sensorState.lastGPSTime
  IN  /\ sensorState.watchId # 0
      /\ now > sensorState.lastGPSTime
      /\ sensorState' =
           [sensorState EXCEPT
              !.gpsInterval = IF sensorState.lastGPSTime > 0 /\ elapsed > 100
                                 /\ elapsed < 5000
                                THEN MulDiv(@, 7, 10) + MulDiv(elapsed, 3, 10)
                                ELSE @,
              !.prevGpsSpeed = sensorState.interpolatedSpeed,
              !.gpsSpeed = newSpeed,
              !.lastGPSTime = now,
              !.hasGPS = TRUE]
      /\ SensorFrame

(* watchPosition error callback (app.js:470-474) *)
GpsError ==
  /\ sensorState.watchId # 0
  /\ sensorState' = [sensorState EXCEPT !.hasGPS = FALSE]
  /\ SensorFrame

(* 'devicemotion' listener (app.js:514-523); acc is event.acceleration,    *)
(* NaN standing for a null component                                       *)
DeviceMotion(acc) ==
  /\ sensorState.motionListener
  /\ sensorState' =
       [sensorState EXCEPT !.acceleration = [x |-> OrDefault(acc.x, 0),
                                             y |-> OrDefault(acc.y, 0),
                                             z |-> OrDefault(acc.z, 0)],
                           !.hasAccelerometer = TRUE]
  /\ SensorFrame

(* stopGPSSensor (app.js:529-540) *)
stopGPSSensor(s) ==
  [s EXCEPT !.watchId = 0, !.hasGPS = FALSE, !.gpsSpeed = 0, !.prevGpsSpeed = 0,
            !.interpolatedSpeed = 0, !.lastGPSTime = 0]

(* startGPSSensor (app.js:435-478); geolocation: navigator.geolocation     *)
(* exists                                                                  *)
startGPSSensor(s, geolocation) ==
  IF geolocation THEN [s EXCEPT !.watchId = 1] ELSE s

(* startAccelerometer (app.js:484-508); motion is "absent" without         *)
(* window.DeviceMotionEvent, "denied" when requestPermission() resolves to *)
(* another state than 'granted', and "granted" otherwise                   *)
startAccelerometer(s, motion) ==
  IF motion = "granted" THEN [s EXCEPT !.motionListener = TRUE]
  ELSE IF motion = "denied" THEN [s EXCEPT !.hasAccelerometer = FALSE]
  ELSE s

MotionStates == {"absent", "denied", "granted"}

(* 'change' of either real-vehicle-mode checkbox, which are kept equal     *)
(* (app.js:634-646), and applyRealVehicleMode (app.js:648-689)             *)
RealVehicleModeChange(geolocation, motion) ==
  LET enabled == ~params.realVehicleMode
  IN  /\ boot = "ready"
      /\ edits > 0
      /\ edits' = edits - 1
      /\ params' = IF enabled THEN [params EXCEPT !.realVehicleMode = TRUE]
                   ELSE [params EXCEPT !.realVehicleMode = FALSE, !.targetThrottle = 0]
      /\ sensorState' = IF enabled
                          THEN startAccelerometer(startGPSSensor(sensorState, geolocation),
                                                  motion)
                          ELSE stopGPSSensor(sensorState)
      /\ vehicleState' = IF enabled THEN [vehicleState EXCEPT !.gear = 1]
                         ELSE vehicleState
      /\ controls' = [gearDisabled |-> enabled, pedalDisabled |-> enabled]
      /\ UNCHANGED <<inputs, isPlaying, audio, awaiting, rafPending, published, frame,
                     boot, clock, ticksLeft, clicks>>
      /\ UNCHANGED <<synthVars, pureVars>>

(* accelThresholdInput 'input' (app.js:691-698) *)
AccelThresholdInput(text) ==
  LET threshold == Max(0, OrDefault(parseFloat(text), 500))
  IN  /\ boot = "ready"
      /\ params' = [params EXCEPT !.accelThreshold = threshold,
                                  !.accelMax = IF @ <= threshold + 100
                                                 THEN threshold + 100 ELSE @]
      /\ UNCHANGED inputs
      /\ EditFrame

(* accelMaxInput 'input' (app.js:700-703) *)
AccelMaxInput(text) ==
  /\ boot = "ready"
  /\ params' = [params EXCEPT !.accelMax = Max(params.accelThreshold + 100,
                                               OrDefault(parseFloat(text), 5000))]
  /\ UNCHANGED inputs
  /\ EditFrame

(* cruiseThrottleInput 'input' (app.js:705-707) *)
CruiseThrottleInput(text) ==
  /\ boot = "ready"
  /\ params' = [params EXCEPT !.cruiseThrottle =
                                Max(0, Min(500, OrDefault(parseFloat(text), 150)))]
  /\ UNCHANGED inputs
  /\ EditFrame

GpsReadings == {NaN, Num(5000), Num(100000), Num(2000000)}
MotionEvents ==
  {[x |-> Num(0), y |-> y, z |-> NaN] :
     y \in {NaN, Num(-2000), Num(300), Num(500), Num(2000), Num(6000)}}
EstimatorTexts == {NaN, Num(-1000), Num(0), Num(300), Num(1900), Num(2000), Num(9000)}
TimeSteps == {400, 800}

InitReal ==
  /\ \E su \in EngineSetups : \E rpm \in {10 * su[1].idleRpm, 10 * su[1].redlineRpm} :
       \E realVehicleMode \in BOOLEAN :
         Running(<<[su[1] EXCEPT !.realVehicleMode = realVehicleMode], su[2]>>,
                 rpm, 4, 500, 0, 0, TRUE)
  /\ ticksLeft = MaxRealTicks /\ clicks = 0 /\ edits = MaxRealEdits
  /\ IdleSynth /\ IdlePure

NextReal ==
  \/ FrameCallback
  \/ \E ms \in TimeSteps : TimePasses(ms)
  \/ \E reading \in GpsReadings : GpsPosition(reading)
  \/ DeviceMotion([x |-> Num(0), y |-> Num(6000), z |-> NaN])
  \/ RealVehicleModeChange(TRUE, "granted")

SpecReal == InitReal /\ [][NextReal]_vars

(* The throttle estimator: one frame after any sequence of sensor events   *)
(* and estimator inputs                                                    *)

MaxEstimateTicks == 1  \* physics frames in a behaviour of SpecEstimate
MaxEstimateEdits == 3  \* mode switches and estimator inputs in a behaviour of SpecEstimate

InitEstimate ==
  /\ \E realVehicleMode \in BOOLEAN :
       Running(<<[InitParams EXCEPT !.realVehicleMode = realVehicleMode], DefaultInputs>>,
               10 * InitParams.idleRpm, 1, 0, 0, 0, TRUE)
  /\ ticksLeft = MaxEstimateTicks /\ clicks = 0 /\ edits = MaxEstimateEdits
  /\ IdleSynth /\ IdlePure

NextEstimate ==
  \/ FrameCallback
  \/ TimePasses(MaxClock)
  \/ \E reading \in GpsReadings : GpsPosition(reading)
  \/ GpsError
  \/ \E acc \in MotionEvents : DeviceMotion(acc)
  \/ RealVehicleModeChange(TRUE, "granted")
  \/ \E text \in EstimatorTexts : AccelThresholdInput(text)
  \/ \E text \in EstimatorTexts : AccelMaxInput(text)
  \/ \E text \in EstimatorTexts : CruiseThrottleInput(text)

SpecEstimate == InitEstimate /\ [][NextEstimate]_vars

(* Sensors that are missing or fail: the mode switch on devices with and   *)
(* without the location and motion APIs, GPS fixes and errors, the manual  *)
(* throttle controls, and the frames of a running engine                   *)

MaxFallbackTicks == 3  \* physics frames in a behaviour of SpecFallback
MaxFallbackEdits == 2  \* mode switches in a behaviour of SpecFallback

InitFallback ==
  /\ \E rpm \in {10 * InitParams.idleRpm, 10 * InitParams.redlineRpm} :
       Running(SetupFor(DefaultInputs), rpm, 1, 0, 0, 0, TRUE)
  /\ ticksLeft = MaxFallbackTicks /\ clicks = 0 /\ edits = MaxFallbackEdits
  /\ IdleSynth /\ IdlePure

NextFallback ==
  \/ FrameCallback
  \/ TimePasses(400)
  \/ \E reading \in {NaN, Num(300000)} : GpsPosition(reading)
  \/ GpsError
  \/ DeviceMotion([x |-> Num(0), y |-> Num(2000), z |-> Num(0)])
  \/ \E geolocation \in BOOLEAN : \E motion \in MotionStates :
       RealVehicleModeChange(geolocation, motion)
  \/ \E down \in BOOLEAN : ThrottleKey(down)
  \/ \E down \in BOOLEAN : Pedal(down)

SpecFallback == InitFallback /\ [][NextFallback]_vars

(* The worked scenarios: a running engine with the default parameters at  *)
(* the rpm, throttle and gear of each scenario and at neighbouring values, *)
(* one frame or one gear change later                                      *)

MaxScenarioTicks == 1  \* physics frames in a behaviour of SpecScenario

ScenarioRpms == {20000, 30000, 49861, 60000}   \* 49861: 31.1 m/s in third gear
ScenarioThrottles == {0, 300, 700, 1000}

InitScenario ==
  /\ \E rpm \in ScenarioRpms : \E gear \in Gears : \E throttle \in ScenarioThrottles :
       Running(SetupFor(DefaultInputs), rpm, gear, throttle, throttle, 0, TRUE)
  /\ ticksLeft = MaxScenarioTicks /\ NoBudget
  /\ IdleSynth /\ IdlePure

NextScenario ==
  \/ FrameCallback
  \/ \E g \in Gears : GearKeyDown(g)

SpecScenario == InitScenario /\ [][NextScenario]_vars

----------------------------------------------------------------------------
(* GPS interpolation: fixes that rise and fall, frames between and after   *)
(* them, over a time longer than the GPS update interval                   *)

MaxGpsTicks == 4      \* physics frames in a behaviour of SpecGps
MaxGpsEdits == 2      \* mode switches in a behaviour of SpecGps
MaxGpsClock == 1600   \* Date.now() at the end of a behaviour of SpecGps, ms
GpsStep == 400        \* ms between two events of SpecGps

(* position.coords.speed of the fixes: null, 10 m/s, 200 m/s *)
GpsSpeeds == {NaN, Num(100000), Num(2000000)}

(* the clock advances between two callbacks *)
GpsTimePasses ==
  /\ clock + GpsStep <= MaxGpsClock
  /\ clock' = clock + GpsStep
  /\ UNCHANGED <<params, vehicleState, sensorState, inputs, isPlaying, audio, awaiting,
                 rafPending, published, frame, controls, boot, ticksLeft, clicks, edits>>
  /\ UNCHANGED <<synthVars, pureVars>>

InitGps ==
  /\ Running(SetupFor(DefaultInputs), 10 * InitParams.idleRpm, 1, 0, 0, 0, TRUE)
  /\ ticksLeft = MaxGpsTicks /\ clicks = 0 /\ edits = MaxGpsEdits
  /\ IdleSynth /\ IdlePure

NextGps ==
  \/ FrameCallback
  \/ GpsTimePasses
  \/ \E reading \in GpsSpeeds : GpsPosition(reading)
  \/ RealVehicleModeChange(TRUE, "granted")

SpecGps == InitGps /\ [][NextGps]_vars

----------------------------------------------------------------------------
(* Manual driving over the whole rpm range: the throttle key, the gear     *)
(* keys and the frames of a running engine that starts between idle and    *)
(* redline                                                                 *)

MaxRangeTicks == 3  \* physics frames in a behaviour of SpecRange

InitRange ==
  /\ \E rpm \in {10 * InitParams.idleRpm, 40000, 10 * InitParams.redlineRpm} :
       \E gear \in KeyGears : \E throttle \in {0, 1000} :
         Running(SetupFor(DefaultInputs), rpm, gear, throttle, throttle, 0, TRUE)
  /\ ticksLeft = MaxRangeTicks /\ NoBudget
  /\ IdleSynth /\ IdlePure

NextRange ==
  \/ FrameCallback
  \/ \E down \in BOOLEAN : ThrottleKey(down)
  \/ \E g \in KeyGears : GearKeyDown(g)

SpecRange == InitRange /\ [][NextRange]_vars

----------------------------------------------------------------------------
(* Claims *)

(* a frame has run *)
Ticked == frame # NoFrame

(* C1: currentRpm lies in [idleRpm*0.75, redlineRpm*1.05] in every         *)
(* reachable state: after each tick, each gear-change snap and each change *)
(* of idleRpm/redlineRpm through inputs, presets or loaded settings.       *)
C1_RpmWithinClamp ==
  /\ params.currentRpm >= RpmFloor(10 * params.idleRpm)
  /\ params.currentRpm <= RpmCeiling(10 * params.redlineRpm)

(* C2: over a run of consecutive samples with rpm > redlineRpm*0.98 the    *)
(* counter advances by 0.15 per sample and wraps past 1.0, the gate is     *)
(* 0.05 while the counter is below 0.3 and 1.0 otherwise, so the gate      *)
(* repeats with a fixed period (7 samples); the first sample at or below   *)
(* the threshold has gate 1.0 and resets the counter to 0 and the flag.    *)
RevLimiterPeriod == (100 \div REV_LIMITER_RATE) + 1

C2_RevLimiterGating ==
  sample.n > 0 =>
    IF sample.rpm * 100 > sample.redlineRpm * 98
      THEN /\ synth.revLimiterActive
           /\ synth.revLimiterCycle =
                (IF sample.before + 15 > 100 THEN 0 ELSE sample.before + 15)
           /\ sample.revLimiterCut = (IF synth.revLimiterCycle < 30 THEN 50 ELSE 1000)
           /\ \A i \in 1..Len(sample.run) :
                i + RevLimiterPeriod <= Len(sample.run) =>
                  sample.run[i] = sample.run[i + RevLimiterPeriod]
      ELSE /\ sample.revLimiterCut = 1000
           /\ synth.revLimiterCycle = 0
           /\ ~synth.revLimiterActive

(* a run over the threshold long enough to show two periods of the gate *)
C2_Witness ==
  /\ Len(sample.run) >= 2 * RevLimiterPeriod
  /\ sample.run[1] = 50 /\ sample.run[2] = 1000
  /\ sample.run[RevLimiterPeriod] = 50

(* C3: a gear selected (dropdown, button, key) while the engine runs, the  *)
(* speed is >= 0.1 m/s and the new gear is not neutral sets currentRpm in  *)
(* that event to speed*newOverallRatio*60/(2*pi*wheelRadius) clamped to    *)
(* [idleRpm*0.75, redlineRpm*1.05]; otherwise the gear change leaves       *)
(* currentRpm unchanged.  (In SpecGear every step that is not a frame is   *)
(* a gear selection.)                                                      *)
C3_GearSnap ==
  [][(ticksLeft' = ticksLeft /\ rafPending' = rafPending) =>
       LET newOverallRatio == OverallRatioOf(vehicleState'.gear)
           newRpm == MulDiv(vehicleState.speed, newOverallRatio * 600, Circumference)
       IN  /\ vehicleState'.speed = vehicleState.speed
           /\ params'.currentRpm =
                IF isPlaying /\ vehicleState.speed >= 1000 /\ newOverallRatio # 0
                  THEN Max(MulDiv(10 * params.idleRpm, 75, 100),
                           Min(newRpm, MulDiv(10 * params.redlineRpm, 105, 100)))
                  ELSE params.currentRpm]_vars

(* after a frame in one gear another gear was selected and the rpm jumped  *)
(* to the rpm of the speed in the new gear, inside the clamp range         *)
C3_Witness ==
  /\ Ticked /\ isPlaying
  /\ vehicleState.gear # frame.gear /\ vehicleState.gear > 0
  /\ vehicleState.speed >= 1000
  /\ params.currentRpm # frame.currentRpm
  /\ params.currentRpm = RpmFromSpeed(vehicleState.speed, getOverallRatio(vehicleState))
  /\ params.currentRpm > RpmFloor(10 * params.idleRpm)
  /\ params.currentRpm < RpmCeiling(10 * params.redlineRpm)

(* C4: for every gear 1..6 and every currentRpm of the clamp range, the    *)
(* speed the frame derives from (rpm, gear), put through the snap formula  *)
(* for the same gear, gives rpm back; so reselecting the current gear at   *)
(* that speed leaves currentRpm unchanged.                                 *)
C4_RoundTrip ==
  tripCase # <<>> =>
    /\ tripCase.back = tripCase.rpm
    /\ tripCase.snapped = tripCase.rpm

(* the snap acted (speed >= 0.1 m/s) in top gear and returned the rpm *)
C4_Witness ==
  /\ tripCase # <<>>
  /\ tripCase.gear = 6 /\ tripCase.speed >= 1000
  /\ tripCase.snapped = tripCase.rpm /\ tripCase.back = tripCase.rpm

(* C5: a frame moves currentRpm monotonically toward its target rpm and    *)
(* never past it (but for the clamp): the effective inertia of             *)
(* rpm*eff + target*(1-eff) lies in [inertia, 1) in the rising and in the  *)
(* falling branch.                                                         *)
C5_Contraction ==
  Ticked =>
    /\ frame.effectiveInertia >= params.inertia * 20000
    /\ frame.effectiveInertia < 20000000
    /\ frame.rising =>
         /\ frame.prevRpm <= frame.rawRpm /\ frame.rawRpm <= frame.targetRpm
    /\ ~frame.rising =>
         /\ frame.targetRpm <= frame.rawRpm /\ frame.rawRpm <= frame.prevRpm
    /\ frame.clampedRpm = Max(MulDiv(10 * params.idleRpm, 75, 100),
                              Min(frame.rawRpm, MulDiv(10 * params.redlineRpm, 105, 100)))

(* a rising frame under load: the rpm moved strictly between the old rpm   *)
(* and the target, with more than the configured inertia                   *)
C5_Witness ==
  /\ Ticked /\ frame.rising /\ frame.isCoupled
  /\ frame.prevRpm < frame.rawRpm /\ frame.rawRpm < frame.targetRpm
  /\ frame.effectiveInertia > params.inertia * 20000

(* C6 as stated: the frame integrates the speed,                           *)
(* speed' = max(0, speed + accel*dt) with dt at most 50 ms, also when      *)
(* declutched (the vehicle coasts down in neutral).                        *)
C6_SpeedIntegrated ==
  Ticked =>
    LET step == frame.accel \div 20       \* accel * 50 ms
    IN  IF frame.accel >= 0
          THEN /\ vehicleState.speed >= frame.prevSpeed
               /\ vehicleState.speed <= frame.prevSpeed + step + 1
          ELSE /\ vehicleState.speed <= frame.prevSpeed
               /\ vehicleState.speed >= Max(0, frame.prevSpeed + step - 1)

(* C6, amended: the frame does not integrate the speed.  It sets the speed *)
(* to currentRpm*2*pi*wheelRadius/(overallRatio*60) when coupled and to 0  *)
(* when declutched; accel = (tractive - resistive)/mass (-resistive/mass   *)
(* declutched) is computed, and no frame delta enters.                     *)
C6_SpeedFromRpm ==
  Ticked =>
    /\ vehicleState.speed =
         IF frame.overallRatio > 0
           THEN MulDiv(frame.currentRpm, TwoPi * wheelRadius, frame.overallRatio * 600)
           ELSE 0
    /\ frame.accel =
         MulDiv(IF frame.overallRatio > 0
                  THEN frame.tractiveForce - frame.resistiveForce
                  ELSE -frame.resistiveForce,
                100, mass)

(* neutral selected while moving: the next frame stops the vehicle at once *)
C6_Witness ==
  /\ Ticked /\ ~frame.isCoupled
  /\ frame.prevSpeed > 100000 /\ frame.accel < 0
  /\ vehicleState.speed = 0

(* C7: for rpm in [idleRpm, redlineRpm] and throttle in [0, 1] the torque  *)
(* is >= 0, non-decreasing up to idle + 60% of the span and non-increasing *)
(* above it, at most 280 N.m and equal to it at 60% of the span with       *)
(* throttle 1; the closed-throttle torque is 15% of the full-throttle one. *)
C7_TorqueCurve ==
  torqueCase # <<>> =>
    LET c == torqueCase
        peak == c.idleRpm + ((c.redlineRpm - c.idleRpm) * 6) \div 10
    IN  /\ c.torque >= 0 /\ c.torque <= 20000000
        /\ c.rpm + TorqueStep <= peak => c.above >= c.torque
        /\ c.rpm >= peak /\ c.rpm + TorqueStep <= c.redlineRpm => c.above <= c.torque
        /\ c.rpm = peak /\ c.throttle = 1000 => c.torque = 20000000
        /\ c.closed * 100 = c.full * 15

(* the peak: 280 N.m at 60% of the span, full throttle, no more above it *)
C7_Witness ==
  /\ torqueCase # <<>>
  /\ torqueCase.rpm = torqueCase.idleRpm
                      + ((torqueCase.redlineRpm - torqueCase.idleRpm) * 6) \div 10
  /\ torqueCase.throttle = 1000
  /\ torqueCase.torque = 20000000 /\ torqueCase.above <= torqueCase.torque

(* C8: after every frame params.load is in [0, 1]; it is 0.05 whenever the *)
(* drivetrain is declutched; the inertial term is at most 0.35 and is      *)
(* non-zero only when coupled with positive acceleration.                  *)
C8_LoadRange ==
  Ticked =>
    /\ params.load = frame.load
    /\ params.load >= 0 /\ params.load <= 1000
    /\ frame.overallRatio = 0 => params.load = 50
    /\ frame.inertialLoad <= 350
    /\ frame.inertialLoad # 0 => frame.isCoupled /\ frame.accel > 0

(* a coupled frame accelerating hard: the inertial term at its cap *)
C8_Witness ==
  /\ Ticked /\ frame.isCoupled /\ frame.accel > 0
  /\ frame.maxTorque > 0
  /\ frame.inertialLoad = 350
  /\ params.load > 350 /\ params.load <= 1000

(* C9: getOverallRatio returns 0 or gearRatio*finalDrive for every gear    *)
(* value; a frame with overall ratio 0 takes the zero-coupling branch      *)
(* (tractive force 0, required torque 0, load 0.05, speed 0); and no frame *)
(* divides by a zero overall ratio or a zero maximum torque.               *)
C9_ZeroCouplingGuard ==
  /\ \A g \in -1..8 : OverallRatioOf(g) \in {0, GearRatioAt(g) * finalDrive}
  /\ Ticked /\ frame.overallRatio = 0 =>
       /\ frame.tractiveForce = 0 /\ frame.requiredTorque = 0
       /\ frame.load = 50 /\ ~frame.isCoupled /\ vehicleState.speed = 0
  /\ Ticked => ~frame.zeroDivisor

(* C10: every snapshot a frame publishes to the synthesizer is inside the  *)
(* contract ranges: rpm 0..12000, throttle 0..1, cylinders 1..12,          *)
(* noiseGain 0..1, redlineRpm 3000..12000, load 0..1, mode flags 0..1.     *)
C10_SnapshotInRange ==
  published.sent =>
    /\ published.rpm >= 0 /\ published.rpm <= 120000
    /\ published.throttle >= 0 /\ published.throttle <= 1000
    /\ published.ncyl >= 1 /\ published.ncyl <= 12
    /\ published.noiseGain >= 0 /\ published.noiseGain <= 1000
    /\ published.redlineRpm >= 3000 /\ published.redlineRpm <= 12000
    /\ published.load >= 0 /\ published.load <= 1000
    /\ \A m \in {"turboMode", "boxerMode", "vtecMode", "fa24Mode", "v8Mode",
                 "rotaryMode"} : published[m] \in {0, 1}

(* C11: for any rpm and cylinder count, the harmonic sum of a sample holds *)
(* exactly the harmonics k in 1..24 with k*f_fire < sampleRate/2; no       *)
(* harmonic with k*f_fire >= sampleRate/2 is added to the signal.          *)
C11_AntiAliasing ==
  harmCase # <<>> =>
    LET h == harmCase.harmonics
    IN  /\ {h[i].k : i \in 1..Len(h)} =
             {k \in 1..24 : 2 * k * harmCase.fFire < 1000 * harmCase.sampleRate}
        /\ \A i \in 1..Len(h) :
             /\ h[i].freq = h[i].k * harmCase.fFire
             /\ 2 * h[i].freq < 1000 * harmCase.sampleRate

(* a firing frequency with a harmonic exactly at sampleRate/2: that        *)
(* harmonic and the ones above it are left out, the ones below are summed  *)
C11_Witness ==
  /\ harmCase # <<>>
  /\ \E k \in 2..24 :
       /\ 2 * k * harmCase.fFire = 1000 * harmCase.sampleRate
       /\ Len(harmCase.harmonics) = k - 1

(* C12: every output sample lies in [-1, 1], its magnitude at most the     *)
(* master gain 0.34, whatever the parameters and the filter history, the   *)
(* post low-pass state staying in [-1, 1]; and every other output channel  *)
(* of a block is a copy of channel 0.                                      *)
C12_OutputBounded ==
  /\ synth.postLpfState >= -1000 /\ synth.postLpfState <= 1000
  /\ \A c \in 1..Len(output.channels) :
       /\ output.channels[c] = output.channels[1]
       /\ Len(output.channels[c]) = BlockLen
       /\ \A i \in 1..Len(output.channels[c]) :
            /\ output.channels[c][i] >= -MASTER_VOLUME
            /\ output.channels[c][i] <= MASTER_VOLUME

(* a second block of two channels rendered on a filter history: the first  *)
(* sample is driven into saturation, the output stays within the gain      *)
C12_Witness ==
  /\ output.n = 2 /\ Len(output.channels) = 2
  /\ output.channels[2] = output.channels[1]
  /\ synth.postLpfState # 0
  /\ output.channels[1][1] < -200 /\ output.channels[1][1] >= -MASTER_VOLUME

(* C13: physics runs once per animation frame: under every interleaving of *)
(* start/stop clicks, completions of the awaited resume, suspend and       *)
(* module load, and frame callbacks, at most one self-rescheduling update  *)
(* loop is live, so no frame runs the physics more than once.              *)
C13_SingleLoop == rafPending <= 1

(* C14: once a stop has completed (isPlaying = FALSE) and no start         *)
(* follows, no frame changes params or vehicleState, at most one frame     *)
(* callback is still pending, and it returns without scheduling another.   *)
C14_StopHalts ==
  /\ [](~isPlaying /\ awaiting.resume = 0 /\ awaiting.addModule = 0
         /\ awaiting.impulse = 0 => rafPending <= 1)
  /\ [][~isPlaying /\ ~isPlaying' /\ rafPending' # rafPending =>
          /\ rafPending' = rafPending - 1
          /\ params' = params /\ vehicleState' = vehicleState
          /\ ticksLeft' = ticksLeft]_vars

(* C15: when a step of a start throws, afterwards isPlaying is FALSE, the  *)
(* start button is enabled, a status message is shown and no partially     *)
(* built audio graph is left behind: a start that succeeds has the engine  *)
(* node connected through the complete effect chain.                       *)
C15_CleanAbort ==
  /\ audio.status = "Error" =>
       /\ ~isPlaying /\ ~audio.startDisabled
       /\ audio.graph # "partial"
  /\ isPlaying => audio.graph = "connected"

(* C16: after any sequence of parameter inputs, preset selections,         *)
(* settings loads and shared-URL loads, redlineRpm > idleRpm and every     *)
(* engine parameter is inside its configured range.                        *)
C16_ParamsInRange ==
  /\ params.redlineRpm > params.idleRpm
  /\ \A f \in ParamFields :
       /\ params[f] >= constraints[f].min
       /\ params[f] <= constraints[f].max

(* texts above the range and texts that are no number were entered: the    *)
(* cylinder count sits at its upper bound, the noise gain at its default   *)
C16_Witness ==
  /\ ~inputs.ncyl.nan /\ inputs.ncyl.v > 1000 * constraints.ncyl.max
  /\ params.ncyl = constraints.ncyl.max
  /\ inputs.noiseGain.nan /\ params.noiseGain = constraints.noiseGain.default

(* C17: updateParamsFromUI saturates: a numeric input value inside the     *)
(* parameter's range, bounds included (noiseGain = 0), is stored           *)
(* unchanged, a value outside it is stored as the nearest bound.           *)
C17_Saturates ==
  /\ \A f \in {"ncyl", "idleRpm", "redlineRpm"} :
       ~inputs[f].nan /\ inputs[f].v % 1000 = 0 =>
         params[f] = Clamp(constraints[f].min, constraints[f].max, inputs[f].v \div 1000)
  /\ \A f \in {"inertia", "noiseGain"} :
       ~inputs[f].nan =>
         params[f] = Clamp(constraints[f].min, constraints[f].max, inputs[f].v)

(* C18: params.roadLoad is in [0, 1] in every reachable state, whether set *)
(* by the slider, by stored settings or by a shared URL.                   *)
C18_RoadLoadInRange == params.roadLoad >= 0 /\ params.roadLoad <= 1000


(* C19: at the end of every physics frame run with realVehicleMode on, the *)
(* gear is 1 and currentRpm is the rpm of the interpolated speed in first  *)
(* gear, interpolatedSpeed * gearRatios[0] * finalDrive * 60 /             *)
(* (2 * PI * wheelRadius), clamped to [idleRpm, redlineRpm * 1.05]; the    *)
(* rpm the free-rev integrator produced in the same frame plays no part.   *)
C19_RealVehicleOverride ==
  [][ticksLeft' < ticksLeft /\ params'.realVehicleMode =>
       /\ vehicleState'.gear = 1
       /\ params'.currentRpm =
            Clamp(10 * params'.idleRpm, RpmCeiling(10 * params'.redlineRpm),
                  RpmFromSpeed(sensorState'.interpolatedSpeed,
                               gearRatios[1] * finalDrive))]_vars

(* a frame in real vehicle mode has just ended: the rpm is that of the     *)
(* interpolated speed, strictly inside the range, and differs from the rpm *)
(* the integrator had computed in that frame                               *)
C19_Witness ==
  /\ Ticked /\ params.realVehicleMode /\ vehicleState.gear = 1
  /\ frame.interpolatedSpeed = sensorState.interpolatedSpeed
  /\ frame.currentRpm = params.currentRpm
  /\ params.currentRpm = RpmFromSpeed(sensorState.interpolatedSpeed,
                                      gearRatios[1] * finalDrive)
  /\ params.currentRpm > 10 * params.idleRpm
  /\ params.currentRpm < RpmCeiling(10 * params.redlineRpm)
  /\ frame.clampedRpm # params.currentRpm

(* C20: the throttle a frame in real vehicle mode takes from               *)
(* estimateThrottleFromSensors follows the decision table, for forward     *)
(* acceleration a, GPS speed v, threshold T and maximum M: a > T gives     *)
(* min(1, (a-T)/(M-T)); a < -T with v > 1 m/s gives 0; v < 1 m/s with      *)
(* |a| < T gives 0; every other case gives cruiseThrottle; with neither    *)
(* GPS nor accelerometer it is 0; and it always lies in [0, 1].            *)
C20_DecisionTable ==
  [][ticksLeft' < ticksLeft /\ params.realVehicleMode =>
       LET a == sensorState.acceleration.y
           v == sensorState.gpsSpeed
           T == params.accelThreshold
           M == params.accelMax
       IN  /\ params'.targetThrottle =
                IF ~sensorState.hasGPS /\ ~sensorState.hasAccelerometer THEN 0
                ELSE IF a > T THEN Min(1000, MulDiv(a - T, 1000, M - T))
                ELSE IF a < -T /\ v > 10000 THEN 0
                ELSE IF v < 10000 /\ Abs(a) < T THEN 0
                ELSE params.cruiseThrottle
           /\ params'.targetThrottle >= 0
           /\ params'.targetThrottle <= 1000]_vars

(* a frame in real vehicle mode has just taken a throttle strictly between *)
(* 0 and 1 from an acceleration above a threshold the user had changed     *)
C20_Witness ==
  /\ Ticked /\ params.realVehicleMode
  /\ frame.targetThrottle = params.targetThrottle
  /\ params.accelThreshold # InitParams.accelThreshold
  /\ sensorState.acceleration.y > params.accelThreshold
  /\ params.targetThrottle = MulDiv(sensorState.acceleration.y - params.accelThreshold,
                                    1000, params.accelMax - params.accelThreshold)
  /\ params.targetThrottle > 0 /\ params.targetThrottle < 1000

(* C21: a frame run in real vehicle mode while neither sensor is available *)
(* (API absent, permission denied, or the GPS error callback has fired,    *)
(* also after valid fixes) falls back to idle: the manual throttle         *)
(* controls are switched off in this mode, so the throttle the frame takes *)
(* is 0 and currentRpm is idleRpm or on its way down to it.                *)
C21_SensorFallback ==
  [][ticksLeft' < ticksLeft /\ params.realVehicleMode
       /\ ~sensorState.hasGPS /\ ~sensorState.hasAccelerometer =>
       /\ params'.targetThrottle = 0
       /\ \/ params'.currentRpm = 10 * params.idleRpm
          \/ params'.currentRpm < params.currentRpm]_vars

(* C22: while real vehicle mode is off, every field of sensorState has its *)
(* initial value (gpsSpeed, prevGpsSpeed, interpolatedSpeed, lastGPSTime,  *)
(* gpsInterval, the acceleration vector, hasGPS, hasAccelerometer,         *)
(* watchId), and no step taken with the mode off writes to sensorState.    *)
C22_SensorReset ==
  /\ [](~params.realVehicleMode =>
          [sensorState EXCEPT !.motionListener = FALSE] = InitSensorState)
  /\ [][~params.realVehicleMode /\ ~params'.realVehicleMode =>
          sensorState' = sensorState]_vars

(* C23: two synthesizer instances that have received the same sequence of  *)
(* parameter snapshots, sample by sample, hold the same synthesis state    *)
(* (tables, drift accumulator, backfire envelope) and have produced the    *)
(* same output.                                                            *)
C23_Deterministic ==
  Len(instances) = 2 => instances[1] = instances[2]

(* the frame of the scenario of C24: idleRpm 900, redlineRpm 7000, inertia *)
(* 0.95, road load 0, throttle 0.7 and 3000 rpm on entry                   *)
ScenarioFrame ==
  /\ ticksLeft' < ticksLeft
  /\ params.idleRpm = 900 /\ params.redlineRpm = 7000 /\ params.inertia = 950
  /\ params.roadLoad = 0 /\ ~params.realVehicleMode
  /\ params.currentThrottle = 700 /\ params.targetThrottle = 700
  /\ params.currentRpm = 30000

ScenarioShift ==
  /\ isPlaying /\ ~params.realVehicleMode
  /\ params.idleRpm = 900 /\ params.redlineRpm = 7000
  /\ vehicleState.gear = 3 /\ vehicleState'.gear = 4
  /\ Abs(vehicleState.speed - 311000) <= 10

C26_Backfire ==
  (/\ params.targetThrottle = 0
   /\ published.throttle < BACKFIRE_THRESHOLD
   /\ instances[1].lastThrottle = published.throttle) =>
    \/ instances[1].popped
    \/ Abs(published.rpm - BACKFIRE_CENTER_RPM) >= BACKFIRE_WIDTH

(* C27: currentThrottle and targetThrottle lie in [0, 1] in every state;   *)
(* a frame moves currentThrottle toward the target it takes by exactly     *)
(* throttleResponse (0.1) times their difference and never past it, so the *)
(* throttles published by two consecutive frames differ by at most 0.1     *)
C27_ThrottleSmoothing ==
  /\ [](/\ params.currentThrottle >= 0 /\ params.currentThrottle <= 1000
        /\ params.targetThrottle >= 0 /\ params.targetThrottle <= 1000)
  /\ [][ticksLeft' < ticksLeft =>
         LET target == frame'.targetThrottle
             before == params.currentThrottle
             after == params'.currentThrottle
         IN  /\ target = params'.targetThrottle
             /\ after = before + MulDiv(target - before, throttleResponse, 1000)
             /\ Min(before, target) <= after /\ after <= Max(before, target)
             /\ published'.throttle = after
             /\ published.throttle = before
             /\ Abs(published'.throttle - published.throttle) <= 100]_vars

(* two frames have moved the throttle from 0 toward a held key: 0.1, then  *)
(* 0.19, published as it stands                                            *)
C27_Witness ==
  /\ Ticked /\ ~params.realVehicleMode
  /\ params.targetThrottle = 1000
  /\ params.currentThrottle = 190
  /\ published.throttle = 190

(* the rpm lies between idleRpm and redlineRpm *)
InBand(p) == 10 * p.idleRpm <= p.currentRpm /\ p.currentRpm <= 10 * p.redlineRpm

(* C28: in manual mode a frame leaves currentRpm between the smaller of    *)
(* its previous value and idleRpm and the larger of its previous value and *)
(* redlineRpm, its target being in [idleRpm, redlineRpm]; so a frame keeps  *)
(* an rpm of [idleRpm, redlineRpm] there, and a step that takes the rpm    *)
(* out of [idleRpm, redlineRpm] is a gear-change snap                      *)
C28_RpmBand ==
  /\ [][ticksLeft' < ticksLeft /\ ~params.realVehicleMode =>
         /\ 10 * params.idleRpm <= frame'.targetRpm
         /\ frame'.targetRpm <= 10 * params.redlineRpm
         /\ Min(params.currentRpm, 10 * params.idleRpm) <= params'.currentRpm
         /\ params'.currentRpm <= Max(params.currentRpm, 10 * params.redlineRpm)
         /\ (InBand(params) => InBand(params'))]_vars
  /\ [][~params.realVehicleMode /\ InBand(params) /\ ~InBand(params')
          /\ params'.idleRpm = params.idleRpm
          /\ params'.redlineRpm = params.redlineRpm =>
         /\ ticksLeft' = ticksLeft
         /\ vehicleState'.speed = vehicleState.speed
         /\ params' = adjustRpmForGearChange(params, vehicleState', isPlaying)]_vars

(* a downshift had snapped the rpm above redlineRpm, and the frame that    *)
(* followed has brought it down, still above redlineRpm                    *)
C28_Witness ==
  /\ Ticked /\ ~params.realVehicleMode
  /\ frame.prevRpm > 10 * params.redlineRpm
  /\ frame.targetRpm <= 10 * params.redlineRpm
  /\ params.currentRpm = frame.clampedRpm
  /\ params.currentRpm < frame.prevRpm
  /\ params.currentRpm > 10 * params.redlineRpm

(* C29: whenever params.realVehicleMode is true, set by a mode checkbox or *)
(* restored from saved settings, the entry actions of the mode have been   *)
(* applied: a GPS watch is held (the browser having geolocation), the gear *)
(* is 1, and the gear controls and the pedal are disabled                  *)
C29_ModeApplied ==
  params.realVehicleMode =>
    /\ sensorState.watchId # InitSensorState.watchId
    /\ vehicleState.gear = 1
    /\ controls.gearDisabled
    /\ controls.pedalDisabled

(* C30: under every interleaving of GPS fixes with non-negative speeds and *)
(* frames, interpolatedSpeed is at least 0 and at most the larger of the   *)
(* interpolation anchor and the newest GPS speed; a fix takes the current  *)
(* interpolatedSpeed as the anchor; and a level that bounds the anchor,    *)
(* interpolatedSpeed and every GPS speed reported so far keeps bounding    *)
(* them, so interpolatedSpeed never exceeds the largest speed reported     *)
C30_Interpolation ==
  /\ [](/\ sensorState.interpolatedSpeed >= 0
        /\ sensorState.interpolatedSpeed
             <= Max(sensorState.prevGpsSpeed, sensorState.gpsSpeed))
  /\ [][sensorState'.lastGPSTime # sensorState.lastGPSTime
          /\ sensorState'.lastGPSTime # 0 =>
         sensorState'.prevGpsSpeed = sensorState.interpolatedSpeed]_vars
  /\ [][\A reading \in GpsSpeeds :
         LET level == OrDefault(reading, 0)
         IN  (/\ sensorState.interpolatedSpeed <= level
              /\ sensorState.prevGpsSpeed <= level
              /\ sensorState.gpsSpeed <= level
              /\ sensorState'.gpsSpeed <= level) =>
               (/\ sensorState'.interpolatedSpeed <= level
                /\ sensorState'.prevGpsSpeed <= level)]_vars

(* after a fix of 200 m/s and a later one of 10 m/s, a frame has left      *)
(* interpolatedSpeed on its way down, between the newest speed and the     *)
(* anchor, which is the interpolatedSpeed the second fix found             *)
C30_Witness ==
  /\ Ticked /\ params.realVehicleMode /\ sensorState.hasGPS
  /\ sensorState.gpsSpeed = 100000
  /\ sensorState.prevGpsSpeed > sensorState.gpsSpeed
  /\ sensorState.interpolatedSpeed > sensorState.gpsSpeed
  /\ sensorState.interpolatedSpeed < sensorState.prevGpsSpeed
  /\ frame.interpolatedSpeed = sensorState.interpolatedSpeed

============================================================================
